---------------------------- MODULE Spec2Model ----------------------------
(***************************************************************************)
(* Model of the scudo page release engine (release.h): ReleaseRecorder,    *)
(* RegionPageMap (packed counters), FreePagesRangeTracker,                  *)
(* PageReleaseContext (markFreeBlocks / markRangeAsAllCounted) and          *)
(* releaseFreeMemoryToOS.                                                   *)
(*                                                                         *)
(* A machine word (uptr) is WordBits bits wide and is kept as limbs of 16   *)
(* bits, limb 1 the least significant one, so that shifts, masks, carries   *)
(* between neighbouring counters and the wrap at 2^64 are those of the      *)
(* machine.  Byte offsets, page indices and counter values are small and    *)
(* are plain integers.                                                      *)
(***************************************************************************)
EXTENDS Integers, Sequences, FiniteSets, TLC

\* ------------------------------------------------------------------ bounds
MaxBlockSize == 8
MaxRegionSize == 12
MaxRegions == 2
MaxBlocks == 4
MaxScans == 2
MaxCounters == 5
MaxOps == 2

\* sizeof(uptr) * 8
WordBits == 64

\* the page sizes getPageSizeCached() is modelled to return (powers of two)
PageSizes == {4, 8}

\* ------------------------------------------------------- machine words
\* A uptr is four 16-bit limbs, limb 1 the least significant: exact 64-bit
\* unsigned arithmetic without integers of more than 31 bits.
Limbs == 1..(WordBits \div 16)

LimbBase == 2 ^ 16

Word == [Limbs -> 0..(LimbBase - 1)]

\* a word with its four limbs worked out
Limbed(w) == <<w[1], w[2], w[3], w[4]>>

ZeroWord == [i \in Limbs |-> 0]

\* ~(static_cast<uptr>(0))
AllOnes == [i \in Limbs |-> LimbBase - 1]

\* a non-negative integer below 2^31 as a machine word
ToWord(n) ==
  Limbed([i \in Limbs |-> IF i = 1 THEN n % LimbBase
                   ELSE IF i = 2 THEN (n \div LimbBase) % LimbBase ELSE 0])

\* the value of a word below 2^30; -1 stands for any larger value
ToInt(w) ==
  IF (\A i \in Limbs : i > 2 => w[i] = 0) /\ w[2] < 2 ^ 14
  THEN w[1] + LimbBase * w[2] ELSE -1

\* w << s, for 0 <= s < WordBits
Shl(w, s) ==
  LET q == s \div 16
      r == s % 16
  IN Limbed([i \in Limbs |->
        (IF i - q >= 1 THEN (w[i - q] % (2 ^ (16 - r))) * (2 ^ r) ELSE 0)
        + (IF i - q - 1 >= 1 THEN w[i - q - 1] \div (2 ^ (16 - r)) ELSE 0)])

\* w >> s, for 0 <= s < WordBits
Shr(w, s) ==
  LET q == s \div 16
      r == s % 16
  IN Limbed([i \in Limbs |->
        (IF i + q <= WordBits \div 16 THEN w[i + q] \div (2 ^ r) ELSE 0)
        + (IF i + q + 1 <= WordBits \div 16
           THEN (w[i + q + 1] % (2 ^ r)) * (2 ^ (16 - r)) ELSE 0)])

\* a & b for a, b below 2^n, n a power of two: the two halves of the bits
RECURSIVE AndBits(_, _, _)
AndBits(a, b, n) ==
  IF a = 0 \/ b = 0 THEN 0
  ELSE IF n = 1 THEN 1
  ELSE LET h == 2 ^ (n \div 2)
       IN AndBits(a % h, b % h, n \div 2) + h * AndBits(a \div h, b \div h, n \div 2)

AndInt(a, b) == AndBits(a, b, 32)

\* a | b for a, b below 2^n, n a power of two
RECURSIVE OrBits(_, _, _)
OrBits(a, b, n) ==
  IF a = 0 THEN b
  ELSE IF b = 0 THEN a
  ELSE IF n = 1 THEN 1
  ELSE LET h == 2 ^ (n \div 2)
       IN OrBits(a % h, b % h, n \div 2) + h * OrBits(a \div h, b \div h, n \div 2)

OrInt(a, b) == OrBits(a, b, 32)

BitAnd(a, b) == Limbed([i \in Limbs |-> AndInt(a[i], b[i])])

BitOr(a, b) == Limbed([i \in Limbs |-> OrInt(a[i], b[i])])

\* a + b modulo 2^WordBits (the carry out of the top limb is dropped)
WordAdd(a, b) ==
  LET c1 == (a[1] + b[1]) \div LimbBase
      c2 == (a[2] + b[2] + c1) \div LimbBase
      c3 == (a[3] + b[3] + c2) \div LimbBase
  IN Limbed([i \in Limbs |->
        CASE i = 1 -> (a[1] + b[1]) % LimbBase
          [] i = 2 -> (a[2] + b[2] + c1) % LimbBase
          [] i = 3 -> (a[3] + b[3] + c2) % LimbBase
          [] OTHER -> (a[4] + b[4] + c3) % LimbBase])

\* ------------------------------------------------------- common helpers
Min(a, b) == IF a < b THEN a ELSE b

roundUp(X, Boundary) == ((X + Boundary - 1) \div Boundary) * Boundary

roundDown(X, Boundary) == (X \div Boundary) * Boundary

roundUpSlow(X, Boundary) == ((X + Boundary - 1) \div Boundary) * Boundary

roundDownSlow(X, Boundary) == (X \div Boundary) * Boundary

RECURSIVE getMostSignificantSetBitIndex(_)
getMostSignificantSetBitIndex(X) ==
  IF X <= 1 THEN 0 ELSE 1 + getMostSignificantSetBitIndex(X \div 2)

RECURSIVE roundUpPowerOfTwo(_)
roundUpPowerOfTwo(Size) ==
  IF Size <= 1 THEN 1 ELSE 2 * roundUpPowerOfTwo((Size + 1) \div 2)

getLog2(X) == getMostSignificantSetBitIndex(X)

\* ------------------------------------------------------- RegionPageMap
\* RegionPageMap::StaticBufferCount
StaticBufferCount == 2048

\* A RegionPageMap is a record of the class's fields.  Buffer is the pointer
\* ("nullptr", "StaticBuffer" or "mapped") and Mem the words it points to,
\* indexed from 0.  Checks is TRUE as long as no DCHECK of the map has failed;
\* the operations below do what a build without the checks does.  NullAccess
\* is TRUE once a counter was read or written through a null Buffer.
EmptyPageMap ==
  [Regions |-> 0, NumCounters |-> 0, CounterSizeBitsLog |-> 0, CounterMask |-> 0,
   PackingRatioLog |-> 0, BitOffsetMask |-> 0, SizePerRegion |-> 0,
   BufferSize |-> 0, Buffer |-> "nullptr", Mem |-> <<>>, Checks |-> TRUE,
   NullAccess |-> FALSE]

\* the static array StaticBuffer before any map used it
CleanStaticBuffer == <<>>

\* the first Words words of the static buffer Static, indexed from 0; the
\* words no map has written are 0, as the static array starts
StaticWords(Static, Words) ==
  [w \in 0..(Words - 1) |-> IF w \in DOMAIN Static THEN Static[w] ELSE ZeroWord]

\* a reset that takes the static buffer as its last user left it
memsetNone(Buf, Words) == Buf

\* memset(Buffer, 0, BufferSize) on the words Buf, of which the first Words
\* words make BufferSize bytes
memset(Buf, Words) ==
  [w \in DOMAIN Buf |-> IF w < Words THEN ZeroWord ELSE Buf[w]]

\* the words map() returns: pages the platform hands out zeroed
map(Words) == [w \in 0..(Words - 1) |-> ZeroWord]

\* a reset that gives every counter a spare bit
CounterSizeBitsSpare(MaxValue) ==
  roundUpPowerOfTwo(getMostSignificantSetBitIndex(MaxValue) + 2)

CounterSizeBitsOf(MaxValue) ==
  roundUpPowerOfTwo(getMostSignificantSetBitIndex(MaxValue) + 1)

CounterMaskOf(CounterSizeBits) == ToInt(Shr(AllOnes, WordBits - CounterSizeBits))

\* reset(NumberOfRegion, CountersPerRegion, MaxValue); TryLock is the result
\* of Mutex.tryLock(), MapOk tells whether map() returns memory and Static is
\* what the static buffer holds when reset is called.
reset(NumberOfRegion, CountersPerRegion, MaxValue, TryLock, MapOk, Static) ==
  LET CounterSizeBits == CounterSizeBitsOf(MaxValue)
      CounterSizeBitsLog == getLog2(CounterSizeBits)
      PackingRatio == WordBits \div (2 ^ CounterSizeBitsLog)
      PackingRatioLog == getLog2(PackingRatio)
      SizePerRegion ==
        roundUp(CountersPerRegion, 2 ^ PackingRatioLog) \div (2 ^ PackingRatioLog)
      BufferSize == SizePerRegion * (WordBits \div 8) * NumberOfRegion
      UseStatic == BufferSize <= StaticBufferCount * (WordBits \div 8) /\ TryLock
      Buffer == IF UseStatic THEN "StaticBuffer"
                ELSE IF MapOk THEN "mapped" ELSE "nullptr"
  IN [Regions |-> NumberOfRegion,
      NumCounters |-> CountersPerRegion,
      CounterSizeBitsLog |-> CounterSizeBitsLog,
      CounterMask |-> CounterMaskOf(CounterSizeBits),
      PackingRatioLog |-> PackingRatioLog,
      BitOffsetMask |-> PackingRatio - 1,
      SizePerRegion |-> SizePerRegion,
      BufferSize |-> BufferSize,
      Buffer |-> Buffer,
      Mem |-> IF Buffer = "StaticBuffer"
              THEN memset(StaticWords(Static, SizePerRegion * NumberOfRegion),
                          SizePerRegion * NumberOfRegion)
              ELSE IF Buffer = "mapped" THEN map(SizePerRegion * NumberOfRegion)
              ELSE <<>>,
      Checks |-> NumberOfRegion > 0 /\ CountersPerRegion > 0 /\ MaxValue > 0
                 /\ CounterSizeBits <= WordBits /\ PackingRatio > 0,
      NullAccess |-> FALSE]

isAllocated(pm) == pm.Buffer # "nullptr"

\* I >> PackingRatioLog
IndexOf(pm, I) == I \div (2 ^ pm.PackingRatioLog)

\* a variant that does not scale the offset by the counter size
BitOffsetUnscaled(pm, I) == AndInt(I, pm.BitOffsetMask)

\* (I & BitOffsetMask) << CounterSizeBitsLog
BitOffsetOf(pm, I) == AndInt(I, pm.BitOffsetMask) * (2 ^ pm.CounterSizeBitsLog)

WordIndexOf(pm, Region, I) == Region * pm.SizePerRegion + IndexOf(pm, I)

\* a variant that does not mask the shifted word
getUnmasked(pm, Region, I) ==
  ToInt(Shr(pm.Mem[WordIndexOf(pm, Region, I)], BitOffsetOf(pm, I)))

get(pm, Region, I) ==
  ToInt(BitAnd(Shr(pm.Mem[WordIndexOf(pm, Region, I)], BitOffsetOf(pm, I)),
               ToWord(pm.CounterMask)))

isAllCounted(pm, Region, I) == get(pm, Region, I) = pm.CounterMask

\* a < b for uptr values, a negative value standing for the wrapped uptr
\* 2^64 + value (what a subtraction below 0 leaves)
ULess(a, b) == IF (a < 0) = (b < 0) THEN a < b ELSE b < 0

InBounds(pm, Region, I) == Region < pm.Regions /\ ULess(I, pm.NumCounters)

\* the word of counter I lies in the buffer.  A write to Buffer[Index] outside
\* the buffer is undefined: the debug build stops at the DCHECK before it, the
\* release build writes to memory that is not the map's or faults.  The
\* words of the map are the same in every case, Checks records the access,
\* and a process that stopped takes no further step.
InBuffer(pm, Region, I) == I >= 0 /\ WordIndexOf(pm, Region, I) \in DOMAIN pm.Mem

incN(pm, Region, I, N) ==
  LET BitOffset == BitOffsetOf(pm, I)
  IN IF ~InBuffer(pm, Region, I) THEN [pm EXCEPT !.Checks = FALSE]
     ELSE
     [pm EXCEPT
        !.Mem[WordIndexOf(pm, Region, I)] = WordAdd(@, Shl(ToWord(N), BitOffset)),
        !.Checks = @ /\ InBounds(pm, Region, I) /\ N > 0 /\ N <= pm.CounterMask
                     /\ get(pm, Region, I) <= pm.CounterMask - N
                     /\ BitOffset < WordBits /\ ~isAllCounted(pm, Region, I)]

inc(pm, Region, I) ==
  LET BitOffset == BitOffsetOf(pm, I)
  IN IF ~InBuffer(pm, Region, I) THEN [pm EXCEPT !.Checks = FALSE]
     ELSE
     [pm EXCEPT
        !.Mem[WordIndexOf(pm, Region, I)] = WordAdd(@, Shl(ToWord(1), BitOffset)),
        !.Checks = @ /\ InBounds(pm, Region, I)
                     /\ get(pm, Region, I) < pm.CounterMask
                     /\ BitOffset < WordBits /\ ~isAllCounted(pm, Region, I)]

\* (every map has pm.Checks \in BOOLEAN: the test has the map of a step worked
\* out before the next step is taken, here and in the loops below)
RECURSIVE incLoop(_, _, _, _)
incLoop(pm, Region, I, Top) ==
  IF pm.Checks \in BOOLEAN /\ I < Top
  THEN incLoop(inc(pm, Region, I), Region, I + 1, Top)
  ELSE pm

\* Min(To + 1, NumCounters) for a uptr To: To + 1 wraps to 0 after the largest
TopOf(pm, To) ==
  IF To = -1 THEN 0 ELSE IF To < 0 THEN pm.NumCounters ELSE Min(To + 1, pm.NumCounters)

\* (a wrapped From is above every Top: the loop is not entered)
incRange(pm, Region, From, To) ==
  IF From < 0 THEN [pm EXCEPT !.Checks = @ /\ ~ULess(To, From)]
  ELSE incLoop([pm EXCEPT !.Checks = @ /\ ~ULess(To, From)], Region, From, TopOf(pm, To))

setAsAllCounted(pm, Region, I) ==
  LET BitOffset == BitOffsetOf(pm, I)
  IN IF ~InBuffer(pm, Region, I) THEN [pm EXCEPT !.Checks = FALSE]
     ELSE
     [pm EXCEPT
        !.Mem[WordIndexOf(pm, Region, I)] =
           BitOr(@, Shl(ToWord(pm.CounterMask), BitOffset)),
        !.Checks = @ /\ InBounds(pm, Region, I)
                     /\ get(pm, Region, I) <= pm.CounterMask
                     /\ BitOffset < WordBits]

RECURSIVE setLoop(_, _, _, _)
setLoop(pm, Region, I, Top) ==
  IF pm.Checks \in BOOLEAN /\ I < Top
  THEN setLoop(setAsAllCounted(pm, Region, I), Region, I + 1, Top)
  ELSE pm

setAsAllCountedRange(pm, Region, From, To) ==
  IF From < 0 THEN [pm EXCEPT !.Checks = @ /\ ~ULess(To, From)]
  ELSE setLoop([pm EXCEPT !.Checks = @ /\ ~ULess(To, From)], Region, From, TopOf(pm, To))

\* a variant that takes a count above MaxCount for a full page as well
updateAsAllCountedIfAtLeast(pm, Region, I, MaxCount) ==
  IF get(pm, Region, I) >= MaxCount
  THEN [PageMap |-> setAsAllCounted(pm, Region, I), Result |-> TRUE]
  ELSE [PageMap |-> pm, Result |-> FALSE]

\* a variant that does not look for CounterMask first
updateAsAllCountedIfFresh(pm, Region, I, MaxCount) ==
  IF get(pm, Region, I) = MaxCount
  THEN [PageMap |-> setAsAllCounted(pm, Region, I), Result |-> TRUE]
  ELSE [PageMap |-> pm, Result |-> FALSE]

\* updateAsAllCountedIf: the map afterwards and the value returned
updateAsAllCountedIf(pm, Region, I, MaxCount) ==
  LET Count == get(pm, Region, I)
  IN IF Count = pm.CounterMask THEN [PageMap |-> pm, Result |-> TRUE]
     ELSE IF Count = MaxCount
          THEN [PageMap |-> setAsAllCounted(pm, Region, I), Result |-> TRUE]
          ELSE [PageMap |-> pm, Result |-> FALSE]

\* ------------------------------------- ReleaseRecorder, FreePagesRangeTracker
\* A scan state ts is [Tracker, Recorder, Platform]: the tracker, the recorder
\* it refers to, and the log of the platform: one entry per call
\* releasePageRangeToOS(From, To), with the Base and Size it handed to
\* releasePagesToOS(Base, From, Size).
NewRecorder(Base) == [ReleasedRangesCount |-> 0, ReleasedBytes |-> 0, Base |-> Base]

\* a variant that adds the end of the range to the bytes
releasePageRangeToOSEnd(ts, From, To) ==
  [ts EXCEPT
     !.Platform = Append(@, [Base |-> ts.Recorder.Base, From |-> From,
                             To |-> To, Size |-> To - From]),
     !.Recorder.ReleasedRangesCount = @ + 1,
     !.Recorder.ReleasedBytes = @ + To]

releasePageRangeToOS(ts, From, To) ==
  LET Size == To - From
  IN [ts EXCEPT
        !.Platform = Append(@, [Base |-> ts.Recorder.Base, From |-> From,
                                To |-> To, Size |-> Size]),
        !.Recorder.ReleasedRangesCount = @ + 1,
        !.Recorder.ReleasedBytes = @ + Size]

NewTracker(PageSize) ==
  [PageSizeLog |-> getLog2(PageSize), InRange |-> FALSE, CurrentPage |-> 0,
   CurrentRangeStatePage |-> 0]

\* a variant that leaves the range open after the call
closeOpenedRangeKeep(ts) ==
  IF ts.Tracker.InRange
  THEN releasePageRangeToOS(ts,
         ts.Tracker.CurrentRangeStatePage * (2 ^ ts.Tracker.PageSizeLog),
         ts.Tracker.CurrentPage * (2 ^ ts.Tracker.PageSizeLog))
  ELSE ts

closeOpenedRange(ts) ==
  IF ts.Tracker.InRange
  THEN [releasePageRangeToOS(ts,
          ts.Tracker.CurrentRangeStatePage * (2 ^ ts.Tracker.PageSizeLog),
          ts.Tracker.CurrentPage * (2 ^ ts.Tracker.PageSizeLog))
        EXCEPT !.Tracker.InRange = FALSE]
  ELSE ts

\* a variant that makes a call for every released page
processNextPageAlone(ts, Released) ==
  LET t1 == IF Released
            THEN [closeOpenedRange(ts)
                  EXCEPT !.Tracker.CurrentRangeStatePage = ts.Tracker.CurrentPage,
                         !.Tracker.InRange = TRUE]
            ELSE closeOpenedRange(ts)
  IN [t1 EXCEPT !.Tracker.CurrentPage = @ + 1]

processNextPage(ts, Released) ==
  LET t1 == IF Released
            THEN IF ~ts.Tracker.InRange
                 THEN [ts EXCEPT !.Tracker.CurrentRangeStatePage = ts.Tracker.CurrentPage,
                                 !.Tracker.InRange = TRUE]
                 ELSE ts
            ELSE closeOpenedRange(ts)
  IN [t1 EXCEPT !.Tracker.CurrentPage = @ + 1]

\* a variant that moves on without closing the open range
skipPagesKeepOpen(ts, N) ==
  [ts EXCEPT !.Tracker.CurrentPage = @ + N]

skipPages(ts, N) ==
  [closeOpenedRange(ts) EXCEPT !.Tracker.CurrentPage = @ + N]

\* a variant that leaves the last range open
finishOpen(ts) == ts

finish(ts) == closeOpenedRange(ts)

\* a variant that counts only the blocks that lie wholly in a page
FullPagesBlockCountMaxWhole(BlockSize, PageSize) ==
  IF BlockSize <= PageSize THEN PageSize \div BlockSize ELSE 1

\* --------------------------------------------------- PageReleaseContext
FullPagesBlockCountMaxOf(BlockSize, PageSize) ==
  IF BlockSize <= PageSize
  THEN IF PageSize % BlockSize = 0 THEN PageSize \div BlockSize
       ELSE IF BlockSize % (PageSize % BlockSize) = 0
            THEN PageSize \div BlockSize + 1
            ELSE PageSize \div BlockSize + 2
  ELSE IF BlockSize % PageSize = 0 THEN 1 ELSE 2

\* pages hold the same number of blocks only when no block crosses a page
\* boundary
SameBlockCountPerPageExact(BlockSize, PageSize) ==
  PageSize % BlockSize = 0 \/ BlockSize % PageSize = 0

SameBlockCountPerPageOf(BlockSize, PageSize) ==
  IF BlockSize <= PageSize
  THEN PageSize % BlockSize = 0 \/ BlockSize % (PageSize % BlockSize) = 0
  ELSE BlockSize % PageSize = 0

PageReleaseContext(BlockSize, RegionSize, NumberOfRegions, ReleaseSize, ReleaseOffset, PageSize) ==
  [BlockSize |-> BlockSize,
   RegionSize |-> RegionSize,
   NumberOfRegions |-> NumberOfRegions,
   ReleasePageOffset |-> ReleaseOffset \div (2 ^ getLog2(PageSize)),
   PageSize |-> PageSize,
   PagesCount |-> roundUp(ReleaseSize, PageSize) \div PageSize,
   PageSizeLog |-> getLog2(PageSize),
   RoundedRegionSize |-> roundUp(RegionSize, PageSize),
   RoundedSize |-> NumberOfRegions * roundUp(RegionSize, PageSize),
   FullPagesBlockCountMax |-> FullPagesBlockCountMaxOf(BlockSize, PageSize),
   SameBlockCountPerPage |-> SameBlockCountPerPageOf(BlockSize, PageSize),
   PageMap |-> EmptyPageMap,
   Checks |-> NumberOfRegions # 1 => (ReleaseSize = RegionSize /\ ReleaseOffset = 0)]

hasBlockMarked(ctx) == isAllocated(ctx.PageMap)

\* a variant that resets the map on every marker call
ensurePageMapAllocatedAgain(ctx, TryLock, MapOk, Static) ==
  [ctx EXCEPT !.PageMap = reset(ctx.NumberOfRegions, ctx.PagesCount,
                                ctx.FullPagesBlockCountMax, TryLock, MapOk, Static)]

ensurePageMapAllocated(ctx, TryLock, MapOk, Static) ==
  IF isAllocated(ctx.PageMap) THEN ctx
  ELSE LET pm == reset(ctx.NumberOfRegions, ctx.PagesCount,
                       ctx.FullPagesBlockCountMax, TryLock, MapOk, Static)
       IN [ctx EXCEPT !.PageMap = pm, !.Checks = @ /\ isAllocated(pm)]

\* (P >> PageSizeLog) - ReleasePageOffset; a negative value stands for the
\* wrapped uptr 2^64 + value
getPageIndex(ctx, P) == (P \div (2 ^ ctx.PageSizeLog)) - ctx.ReleasePageOffset

\* markRangeAsAllCounted(From, To, Base) once the page map is allocated
markRangeBody(ctx, From, To, Base) ==
  LET PageSize == ctx.PageSize
      BlockSize == ctx.BlockSize
      RegionSize == ctx.RegionSize
      FromOffset == From - Base
      ToOffset == To - Base
      RegionIndex == IF ctx.NumberOfRegions = 1 THEN 0 ELSE FromOffset \div RegionSize
      ToRegionIndex ==
        IF ctx.NumberOfRegions = 1 THEN 0 ELSE (ToOffset - 1) \div RegionSize
      FromInRegion0 == FromOffset - RegionIndex * RegionSize
      ToInRegion0 == ToOffset - RegionIndex * RegionSize
      FirstBlockInRange == roundUpSlow(FromInRegion0, BlockSize)
      pm0 == [ctx.PageMap EXCEPT
                !.Checks = @ /\ From < To /\ From % PageSize = 0
                             /\ RegionIndex = ToRegionIndex]
      \* the first block page
      FromInRegion1 == roundDown(FirstBlockInRange, PageSize)
      Straddle == FirstBlockInRange # FromInRegion1
      NumBlocksInFirstPage ==
        (FromInRegion1 + PageSize - FirstBlockInRange + BlockSize - 1) \div BlockSize
      pm1 == IF Straddle
             THEN incN([pm0 EXCEPT !.Checks =
                          @ /\ FromInRegion1 + PageSize > FirstBlockInRange],
                       RegionIndex, getPageIndex(ctx, FromInRegion1),
                       NumBlocksInFirstPage)
             ELSE pm0
      FromInRegion2 == IF Straddle THEN roundUp(FromInRegion1 + 1, PageSize)
                       ELSE FromInRegion1
      LastBlockInRange == roundDownSlow(ToInRegion0 - 1, BlockSize)
      NotLast == LastBlockInRange + BlockSize # RegionSize
      pm2 == IF NotLast
             THEN LET pmc == [pm1 EXCEPT !.Checks = @ /\ ToInRegion0 % PageSize = 0]
                  IN IF LastBlockInRange + BlockSize # ToInRegion0
                     THEN incRange(pmc, RegionIndex, getPageIndex(ctx, ToInRegion0),
                                   getPageIndex(ctx, LastBlockInRange + BlockSize - 1))
                     ELSE pmc
             ELSE pm1
      ToInRegion1 == IF NotLast THEN ToInRegion0 ELSE RegionSize
      pm3 == IF FromInRegion2 < ToInRegion1
             THEN setAsAllCountedRange(pm2, RegionIndex,
                                       getPageIndex(ctx, FromInRegion2),
                                       getPageIndex(ctx, ToInRegion1 - 1))
             ELSE pm2
  IN IF FirstBlockInRange >= ToInRegion0 THEN pm0
     ELSE IF LastBlockInRange < FromInRegion2 THEN pm1
     ELSE pm3

\* Without a buffer the calls of the body go through the null Buffer: every
\* call of it writes a counter, so the body reaches one exactly if it changes
\* the words of a map that has a buffer.
markRangeAsAllCounted(ctx, From, To, Base, TryLock, MapOk, Static) ==
  LET c == ensurePageMapAllocated(ctx, TryLock, MapOk, Static)
      shadow == [c EXCEPT !.PageMap.Mem = map(c.PageMap.SizePerRegion * c.PageMap.Regions)]
  IN IF isAllocated(c.PageMap)
     THEN [c EXCEPT !.PageMap = markRangeBody(c, From, To, Base)]
     ELSE [c EXCEPT !.PageMap.NullAccess =
             @ \/ markRangeBody(shadow, From, To, Base).Mem # shadow.PageMap.Mem]

\* the offset after the last whole block, where no block of the free list is
LastBlockInRegionPast(ctx) == (ctx.RegionSize \div ctx.BlockSize) * ctx.BlockSize

LastBlockInRegionOf(ctx) == ((ctx.RegionSize \div ctx.BlockSize) - 1) * ctx.BlockSize

RECURSIVE markLastBlockLoop(_, _, _, _)
markLastBlockLoop(ctx, pm, RegionIndex, PInRegion) ==
  IF pm.Checks \in BOOLEAN /\ PInRegion < ctx.RoundedRegionSize
  THEN markLastBlockLoop(ctx,
         incRange(pm, RegionIndex, getPageIndex(ctx, PInRegion),
                  getPageIndex(ctx, PInRegion + ctx.BlockSize - 1)),
         RegionIndex, PInRegion + ctx.BlockSize)
  ELSE pm

\* a variant that counts no block after the last one of the region
markLastBlockNone(ctx, pm, RegionIndex) == pm

markLastBlock(ctx, pm, RegionIndex) ==
  markLastBlockLoop(ctx, pm, RegionIndex, LastBlockInRegionOf(ctx) + ctx.BlockSize)

\* a variant that gives incRange the page of the end of the block
markOneBlockExclusive(ctx, pm, P) ==
  IF P >= ctx.RoundedSize THEN pm
  ELSE LET RegionIndex == IF ctx.NumberOfRegions = 1 THEN 0 ELSE P \div ctx.RegionSize
           PInRegion == P - RegionIndex * ctx.RegionSize
           pm1 == IF ctx.BlockSize <= ctx.PageSize /\ ctx.PageSize % ctx.BlockSize = 0
                  THEN inc(pm, RegionIndex, getPageIndex(ctx, PInRegion))
                  ELSE incRange(
                         [pm EXCEPT !.Checks = @ /\ ctx.RegionSize >= ctx.BlockSize],
                         RegionIndex, getPageIndex(ctx, PInRegion),
                         getPageIndex(ctx, PInRegion + ctx.BlockSize))
       IN IF PInRegion = LastBlockInRegionOf(ctx)
          THEN markLastBlock(ctx, pm1, RegionIndex)
          ELSE pm1

\* the body of markFreeBlocks's loops for one free-list entry at offset P
markOneBlock(ctx, pm, P) ==
  IF P >= ctx.RoundedSize THEN pm
  ELSE LET RegionIndex == IF ctx.NumberOfRegions = 1 THEN 0 ELSE P \div ctx.RegionSize
           PInRegion == P - RegionIndex * ctx.RegionSize
           pm1 == IF ctx.BlockSize <= ctx.PageSize /\ ctx.PageSize % ctx.BlockSize = 0
                  THEN inc(pm, RegionIndex, getPageIndex(ctx, PInRegion))
                  ELSE incRange(
                         [pm EXCEPT !.Checks = @ /\ ctx.RegionSize >= ctx.BlockSize],
                         RegionIndex, getPageIndex(ctx, PInRegion),
                         getPageIndex(ctx, PInRegion + ctx.BlockSize - 1))
       IN IF PInRegion = LastBlockInRegionOf(ctx)
          THEN markLastBlock(ctx, pm1, RegionIndex)
          ELSE pm1

\* FreeList is the sequence of block addresses the batches hold, in list order
\* (the map is allocated throughout the loop); the entries lo..hi are taken in
\* order, those of the first half of lo..hi before those of the second
RECURSIVE markFreeLoop(_, _, _, _, _, _)
markFreeLoop(ctx, pm, FreeList, Base, lo, hi) ==
  IF ~isAllocated(pm) \/ lo > hi THEN pm
  ELSE IF lo = hi THEN markOneBlock(ctx, pm, FreeList[lo] - Base)
  ELSE markFreeLoop(ctx, markFreeLoop(ctx, pm, FreeList, Base, lo, (lo + hi) \div 2),
                    FreeList, Base, (lo + hi) \div 2 + 1, hi)

\* Without a buffer PageMap.inc and PageMap.incRange go through the null
\* Buffer, for the first entry of the list that lies in the window.
markFreeBlocks(ctx, FreeList, Base, TryLock, MapOk, Static) ==
  LET c == ensurePageMapAllocated(ctx, TryLock, MapOk, Static)
  IN IF isAllocated(c.PageMap)
     THEN [c EXCEPT !.PageMap = markFreeLoop(c, c.PageMap, FreeList, Base, 1, Len(FreeList))]
     ELSE [c EXCEPT !.PageMap.NullAccess =
             @ \/ \E k \in 1..Len(FreeList) : FreeList[k] - Base < c.RoundedSize]

\* ------------------------------------------------ releaseFreeMemoryToOS
\* A loop state ls is [PageMap, ts, PrevPageBoundary, CurrentBoundary].
\* SkipRegion is the set of region indices the predicate answers true for.

\* fast path: page J of region I
fastPage(ctx, ls, I, J) ==
  LET u == updateAsAllCountedIf(ls.PageMap, I, J, ctx.FullPagesBlockCountMax)
  IN [ls EXCEPT !.PageMap = u.PageMap, !.ts = processNextPage(ls.ts, u.Result)]

\* fast path: the pages lo..hi of region I in order, those of the first half of
\* lo..hi before those of the second
RECURSIVE fastPages(_, _, _, _, _)
fastPages(ctx, ls, I, lo, hi) ==
  IF ls.PageMap.Checks \notin BOOLEAN \/ lo > hi THEN ls
  ELSE IF lo = hi THEN fastPage(ctx, ls, I, lo)
  ELSE fastPages(ctx, fastPages(ctx, ls, I, lo, (lo + hi) \div 2),
                 I, (lo + hi) \div 2 + 1, hi)

\* slow path: the expected number of blocks of a page and the boundary after it,
\* from the boundaries before it
slowPage(ctx, PrevPageBoundary, CurrentBoundary) ==
  LET Pn == IF ctx.BlockSize < ctx.PageSize THEN ctx.PageSize \div ctx.BlockSize ELSE 1
      Pnc == Pn * ctx.BlockSize
      PageBoundary == PrevPageBoundary + ctx.PageSize
      First == CurrentBoundary < PageBoundary
      b1 == IF First /\ CurrentBoundary > PrevPageBoundary THEN Pn + 1 ELSE Pn
      c1 == IF First THEN CurrentBoundary + Pnc ELSE CurrentBoundary
      Second == First /\ c1 < PageBoundary
  IN [BlocksPerPage |-> IF Second THEN b1 + 1 ELSE b1,
      CurrentBoundary |-> IF Second THEN c1 + ctx.BlockSize ELSE c1,
      PrevPageBoundary |-> PageBoundary]

\* slow path: page J of region I
slowPageStep(ctx, ls, I, J) ==
  LET sp == slowPage(ctx, ls.PrevPageBoundary, ls.CurrentBoundary)
      u == updateAsAllCountedIf(ls.PageMap, I, J, sp.BlocksPerPage)
  IN [PageMap |-> u.PageMap,
      ts |-> processNextPage(ls.ts, u.Result),
      PrevPageBoundary |-> sp.PrevPageBoundary,
      CurrentBoundary |-> sp.CurrentBoundary]

\* slow path: the pages lo..hi of region I in order
RECURSIVE slowPages(_, _, _, _, _)
slowPages(ctx, ls, I, lo, hi) ==
  IF ls.PageMap.Checks \notin BOOLEAN \/ lo > hi THEN ls
  ELSE IF lo = hi THEN slowPageStep(ctx, ls, I, lo)
  ELSE slowPages(ctx, slowPages(ctx, ls, I, lo, (lo + hi) \div 2),
                 I, (lo + hi) \div 2 + 1, hi)

\* a variant that starts the blocks at the window, not at the region
slowStartAtWindow(ctx) ==
  [PrevPageBoundary |-> ctx.ReleasePageOffset * ctx.PageSize,
   CurrentBoundary |-> ctx.ReleasePageOffset * ctx.PageSize]

\* slow path: the boundaries a region starts with
slowStart(ctx) ==
  IF ctx.ReleasePageOffset > 0
  THEN [PrevPageBoundary |-> ctx.ReleasePageOffset * ctx.PageSize,
        CurrentBoundary |-> roundUpSlow(ctx.ReleasePageOffset * ctx.PageSize,
                                        ctx.BlockSize)]
  ELSE [PrevPageBoundary |-> 0, CurrentBoundary |-> 0]

scanRegion(ctx, ls, I, SkipRegion) ==
  IF I \in SkipRegion
  THEN [ls EXCEPT !.ts = skipPages(ls.ts, ctx.PagesCount)]
  ELSE IF ctx.SameBlockCountPerPage
       THEN fastPages(ctx, ls, I, 0, ctx.PagesCount - 1)
       ELSE slowPages(ctx,
                      [ls EXCEPT !.PrevPageBoundary = slowStart(ctx).PrevPageBoundary,
                                 !.CurrentBoundary = slowStart(ctx).CurrentBoundary],
                      I, 0, ctx.PagesCount - 1)

RECURSIVE scanRegions(_, _, _, _)
scanRegions(ctx, ls, I, SkipRegion) ==
  IF ls.PageMap.Checks \notin BOOLEAN \/ I >= ctx.NumberOfRegions THEN ls
  ELSE scanRegions(ctx, scanRegion(ctx, ls, I, SkipRegion), I + 1, SkipRegion)

\* releaseFreeMemoryToOS(Context, Recorder, SkipRegion): the context (its page
\* map), the recorder and the platform calls afterwards
releaseFreeMemoryToOS(ctx, rec, platform, SkipRegion) ==
  LET ls0 == [PageMap |-> ctx.PageMap,
              ts |-> [Tracker |-> NewTracker(ctx.PageSize), Recorder |-> rec,
                      Platform |-> platform],
              PrevPageBoundary |-> 0, CurrentBoundary |-> 0]
      ls1 == scanRegions(ctx, ls0, 0, SkipRegion)
      ts1 == finish(ls1.ts)
  IN [Context |-> [ctx EXCEPT !.PageMap = ls1.PageMap],
      Recorder |-> ts1.Recorder, Platform |-> ts1.Platform]

\* the overload releaseFreeMemoryToOS(FreeList, RegionSize, NumberOfRegions,
\* BlockSize, Recorder, DecompactPtr, SkipRegion): the context it constructs.
\* The constructor takes (BlockSize, RegionSize, NumberOfRegions, ReleaseSize,
\* ReleaseOffset = 0) and is given (BlockSize, RegionSize, RegionSize,
\* NumberOfRegions).
overloadContext(RegionSize, NumberOfRegions, BlockSize, PageSize) ==
  PageReleaseContext(BlockSize, RegionSize, RegionSize, NumberOfRegions, 0, PageSize)

\* the overload: the context it leaves behind, the recorder and the platform
\* calls afterwards
releaseFreeMemoryToOSOverload(FreeList, RegionSize, NumberOfRegions, BlockSize, rec, platform, SkipRegion, PageSize) ==
  releaseFreeMemoryToOS(
    markFreeBlocks(overloadContext(RegionSize, NumberOfRegions, BlockSize, PageSize),
                   FreeList, rec.Base, TRUE, TRUE, CleanStaticBuffer),
    rec, platform, SkipRegion)

\* ------------------------------------------------------------ the state
\* Context    the PageReleaseContext of the pass (with its PageMap)
\* Recorder   the ReleaseRecorder of the pass
\* Platform   the releasePageRangeToOS calls made so far
\* FreeBlocks the offsets from Base of the blocks that are free (the snapshot)
\* Marked     the offsets of the blocks handed to a marker so far
\* Marks      how many calls of each marker were made, and the range [From, To)
\*            (offsets from Base) of the last markRangeAsAllCounted call
\* Scans      one record per releaseFreeMemoryToOS call made
\* Map        a RegionPageMap used on its own, MapArgs its constructor arguments
\* op         the last operation called on Map
\* Passes     the release passes that run side by side in one process
\* Mutex      RegionPageMap::Mutex: TRUE while it is locked
\* StaticBuffer  the words of RegionPageMap::StaticBuffer that were written
\* Tracker    a FreePagesRangeTracker used on its own (on Recorder)
\* Walk       the calls made on Tracker: for every page it advanced over
\*            whether processNextPage(true) did it, and the finish() calls
VARIABLES Context, Recorder, Platform, FreeBlocks, Marked, Marks, Scans,
          Map, MapArgs, op, Passes, Mutex, StaticBuffer, Tracker, Walk

vars == <<Context, Recorder, Platform, FreeBlocks, Marked, Marks, Scans,
          Map, MapArgs, op, Passes, Mutex, StaticBuffer, Tracker, Walk>>

trackerVars == <<Tracker, Walk>>

NoTracker == Tracker = NewTracker(4) /\ Walk = [Pages |-> <<>>, Finishes |-> 0]

sharedVars == <<Passes, Mutex, StaticBuffer>>

NoShared == Passes = <<>> /\ Mutex = FALSE /\ StaticBuffer = CleanStaticBuffer

passVars == <<Context, Recorder, Platform, FreeBlocks, Marked, Marks, Scans>>

mapVars == <<Map, MapArgs, op>>

\* the addresses the regions are laid out from
Bases == {4096}

MaxRangeCalls == 1

NoOp == [name |-> "none", Region |-> 0, I |-> 0, To |-> 0, N |-> 0,
         Result |-> FALSE, Count |-> 0]

NoMapArgs == [NumberOfRegions |-> 0, CountersPerRegion |-> 0, MaxValue |-> 0]

NoMap == Map = EmptyPageMap /\ MapArgs = NoMapArgs /\ op = NoOp

\* the offsets from Base of the whole blocks of a region array
AllBlocksOf(BlockSize, RegionSize, NumberOfRegions) ==
  {r * RegionSize + k * BlockSize :
     r \in 0..(NumberOfRegions - 1), k \in 0..((RegionSize \div BlockSize) - 1)}

AllBlocks == AllBlocksOf(Context.BlockSize, Context.RegionSize, Context.NumberOfRegions)

RECURSIVE SortedSeq(_)
SortedSeq(S) ==
  IF S = {} THEN <<>>
  ELSE LET m == CHOOSE x \in S : \A y \in S : x <= y
       IN <<m>> \o SortedSeq(S \ {m})

\* a pass over a full release window
InitPass(BlockSize, RegionSize, NumberOfRegions, PageSize, Base, Free) ==
  /\ Context = PageReleaseContext(BlockSize, RegionSize, NumberOfRegions,
                                  RegionSize, 0, PageSize)
  /\ Recorder = NewRecorder(Base)
  /\ Platform = <<>>
  /\ FreeBlocks = Free
  /\ Marked = {}
  /\ Marks = [Free |-> 0, Range |-> 0, From |-> 0, To |-> 0]
  /\ Scans = <<>>
  /\ NoMap
  /\ NoShared
  /\ NoTracker

\* every geometry of at most Regions regions and Blocks whole blocks, with any
\* free-list snapshot
InitUpTo(Regions, Blocks) ==
  \E PageSize \in PageSizes, BlockSize \in 1..MaxBlockSize,
     RegionSize \in 1..MaxRegionSize, NumberOfRegions \in 1..Regions,
     Base \in Bases :
    /\ BlockSize <= RegionSize
    /\ NumberOfRegions * (RegionSize \div BlockSize) <= Blocks
    /\ \E Free \in SUBSET AllBlocksOf(BlockSize, RegionSize, NumberOfRegions) :
         InitPass(BlockSize, RegionSize, NumberOfRegions, PageSize, Base, Free)

\* a region of 12000 bytes with 3000-byte blocks and 4096-byte pages: neither
\* the blocks nor the pages fill the region
InitExample ==
  \E Base \in Bases, Free \in SUBSET AllBlocksOf(3000, 12000, 1) :
    InitPass(3000, 12000, 1, 4096, Base, Free)

Init == InitUpTo(MaxRegions, MaxBlocks) \/ InitExample

InitRange == InitUpTo(1, MaxBlocks - 1)

\* the whole blocks of region r that start in [f, t) of the region
BlocksStartingIn(r, f, t) ==
  {b \in AllBlocks : b >= r * Context.RegionSize + f /\ b < r * Context.RegionSize + t}

\* the offsets in region r of the page aligned addresses
AlignedIn(r) ==
  LET Start == Recorder.Base + r * Context.RegionSize
      Skew == (Context.PageSize - (Start % Context.PageSize)) % Context.PageSize
  IN {Skew + j * Context.PageSize : j \in 0..(Context.RegionSize \div Context.PageSize)}
     \cap (0..Context.RegionSize)

\* the ranges [f, t) of region r a caller may hand to markRangeAsAllCounted:
\* From is page aligned, To is page aligned or the end of the region, and the
\* blocks of the range are all free and not marked before
RangeArgs ==
  UNION {{<<r, f, t>> : f \in AlignedIn(r), t \in AlignedIn(r) \cup {Context.RegionSize}}
         : r \in 0..(Context.NumberOfRegions - 1)}

LegalRangeArgs ==
  {a \in RangeArgs :
     /\ a[2] < a[3]
     /\ BlocksStartingIn(a[1], a[2], a[3]) \subseteq FreeBlocks \ Marked}

\* markFreeBlocks(FreeList, DecompactPtr, Base) on the free list L, given at
\* the addresses of its blocks in ascending order
MarkFreeBlocksOf(L) ==
  /\ Scans = <<>>
  /\ L # {} \/ ~hasBlockMarked(Context)
  /\ Context' = markFreeBlocks(Context,
                               LET S == SortedSeq(L)
                               IN [k \in 1..Len(S) |-> Recorder.Base + S[k]],
                               Recorder.Base, TRUE, TRUE, CleanStaticBuffer)
  /\ Marked' = Marked \cup L
  /\ Marks' = [Marks EXCEPT !.Free = @ + 1]
  /\ UNCHANGED <<Recorder, Platform, FreeBlocks, Scans, mapVars, sharedVars, trackerVars>>

\* the free list holds the free blocks not marked before, but for the blocks
\* of one range left to markRangeAsAllCounted (an empty list only allocates
\* the map)
MarkFreeBlocks ==
  \E B \in {{}} \cup {BlocksStartingIn(a[1], a[2], a[3]) : a \in LegalRangeArgs} :
    MarkFreeBlocksOf((FreeBlocks \ Marked) \ B)

\* the free list holds every free block not marked before
MarkFreeList == MarkFreeBlocksOf(FreeBlocks \ Marked)

\* markRangeAsAllCounted(From, To, Base)
MarkRangeAsAllCounted ==
  \E a \in LegalRangeArgs :
    LET From == Recorder.Base + a[1] * Context.RegionSize + a[2]
        To == Recorder.Base + a[1] * Context.RegionSize + a[3]
    IN /\ Scans = <<>>
       /\ Marks.Range < MaxRangeCalls
       /\ Context' = markRangeAsAllCounted(Context, From, To, Recorder.Base, TRUE, TRUE,
                                              CleanStaticBuffer)
       /\ Marked' = Marked \cup BlocksStartingIn(a[1], a[2], a[3])
       /\ Marks' = [Marks EXCEPT !.Range = @ + 1,
                                 !.From = a[1] * Context.RegionSize + a[2],
                                 !.To = a[1] * Context.RegionSize + a[3]]
       /\ UNCHANGED <<Recorder, Platform, FreeBlocks, Scans, mapVars, sharedVars, trackerVars>>

\* releaseFreeMemoryToOS(Context, Recorder, SkipRegion) with any predicate; a
\* second scan of the pass is given the same predicate
ReleaseFreeMemoryToOS ==
  \E SkipRegion \in SUBSET (0..(Context.NumberOfRegions - 1)) :
    LET r == releaseFreeMemoryToOS(Context, Recorder, Platform, SkipRegion)
    IN /\ hasBlockMarked(Context)
       /\ Len(Scans) < MaxScans
       /\ Scans # <<>> => SkipRegion = Scans[1].SkipRegion
       /\ Context' = r.Context
       /\ Recorder' = r.Recorder
       /\ Platform' = r.Platform
       /\ Scans' = Append(Scans, [SkipRegion |-> SkipRegion,
                                  First |-> Len(Platform) + 1,
                                  Last |-> Len(r.Platform),
                                  Marked |-> Marked,
                                  Marks |-> Marks])
       /\ UNCHANGED <<FreeBlocks, Marked, Marks, mapVars, sharedVars, trackerVars>>

Next == MarkFreeBlocks \/ ReleaseFreeMemoryToOS

Spec == Init /\ [][Next]_vars

\* passes of one region that use both markers
NextRange == MarkFreeBlocks \/ MarkRangeAsAllCounted \/ ReleaseFreeMemoryToOS

SpecRange == InitRange /\ [][NextRange]_vars

\* the scenarios of blocks of one page in regions of eight pages: two to four
\* regions, every block free or every block but one
InitScenario ==
  \E NumberOfRegions \in 2..4, Base \in Bases :
    \E Free \in {AllBlocksOf(4096, 32768, NumberOfRegions)}
                \cup {AllBlocksOf(4096, 32768, NumberOfRegions) \ {b} :
                        b \in AllBlocksOf(4096, 32768, NumberOfRegions)} :
      InitPass(4096, 32768, NumberOfRegions, 4096, Base, Free)

NextScenario == MarkFreeList \/ ReleaseFreeMemoryToOS

SpecScenario == InitScenario /\ [][NextScenario]_vars

\* ------------------------------------------ a partial release window
\* one region of 65536 bytes with 4096-byte pages, of which the window
\* [16384, 49152) is released: PageReleaseContext(BlockSize, RegionSize, 1,
\* ReleaseSize, ReleaseOffset) with block sizes that divide ReleaseOffset
WindowBlockSizes == {256, 512, 1024, 2048, 4096, 8192, 16384}

WindowFrom == 16384

WindowTo == 49152

InitWindow ==
  \E BlockSize \in WindowBlockSizes, Base \in Bases :
    /\ Context = PageReleaseContext(BlockSize, 65536, 1, WindowTo - WindowFrom,
                                    WindowFrom, 4096)
    /\ Recorder = NewRecorder(Base)
    /\ Platform = <<>>
    /\ FreeBlocks = {b \in AllBlocksOf(BlockSize, 65536, 1) :
                       b >= WindowFrom /\ b < WindowTo}
    /\ Marked = {}
    /\ Marks = [Free |-> 0, Range |-> 0, From |-> 0, To |-> 0]
    /\ Scans = <<>>
    /\ NoMap
    /\ NoShared
    /\ NoTracker

\* markRangeAsAllCounted(Base + From, Base + To, Base) for a page aligned
\* range of the window
MarkWindowRange ==
  \E f \in 0..7, t \in 1..8 :
    LET From == WindowFrom + f * Context.PageSize
        To == WindowFrom + t * Context.PageSize
    IN /\ From < To
       /\ Scans = <<>>
       /\ Marks.Range < MaxRangeCalls
       /\ Context' = markRangeAsAllCounted(Context, Recorder.Base + From,
                                              Recorder.Base + To, Recorder.Base,
                                              TRUE, TRUE, CleanStaticBuffer)
       /\ Marked' = Marked \cup BlocksStartingIn(0, From, To)
       /\ Marks' = [Marks EXCEPT !.Range = @ + 1, !.From = From, !.To = To]
       /\ UNCHANGED <<Recorder, Platform, FreeBlocks, Scans, mapVars, sharedVars, trackerVars>>

NextWindow == MarkWindowRange \/ ReleaseFreeMemoryToOS

SpecWindow == InitWindow /\ [][NextWindow]_vars

\* ------------------------------------------------ the overload
\* The overload called on the free blocks of the pass.  Context stays the
\* context a caller constructs from the same arguments: the overload works on
\* a context of its own, which is gone when it returns.  When a debug check
\* fails on the way the debug build stops before any page is released and
\* the release build goes on.
ReleaseFreeMemoryToOSOverload ==
  \E SkipRegion \in SUBSET (0..(Context.NumberOfRegions - 1)), Debug \in BOOLEAN :
    LET S == SortedSeq(FreeBlocks)
        r == releaseFreeMemoryToOSOverload([k \in 1..Len(S) |-> Recorder.Base + S[k]],
                                           Context.RegionSize, Context.NumberOfRegions,
                                           Context.BlockSize, Recorder, Platform,
                                           SkipRegion, Context.PageSize)
        Stopped == Debug /\ ~(r.Context.Checks /\ r.Context.PageMap.Checks)
    IN /\ Scans = <<>>
       /\ ~hasBlockMarked(Context)
       /\ Recorder' = IF Stopped THEN Recorder ELSE r.Recorder
       /\ Platform' = IF Stopped THEN Platform ELSE r.Platform
       /\ Scans' = Append(Scans, [SkipRegion |-> SkipRegion,
                                  First |-> Len(Platform) + 1,
                                  Last |-> IF Stopped THEN Len(Platform) ELSE Len(r.Platform),
                                  Marked |-> FreeBlocks,
                                  Marks |-> [Marks EXCEPT !.Free = @ + 1]])
       /\ Marked' = FreeBlocks
       /\ Marks' = [Marks EXCEPT !.Free = @ + 1]
       /\ UNCHANGED <<Context, FreeBlocks, mapVars, sharedVars, trackerVars>>

InitOverload == InitUpTo(MaxRegions, MaxBlocks)

SpecOverload == InitOverload /\ [][ReleaseFreeMemoryToOSOverload]_vars

\* ------------------------------------------- a tracker on its own
MaxTrackerPages == 6

MaxSkip == 2

InitTracker ==
  \E PageSize \in PageSizes, Base \in Bases :
    /\ Tracker = NewTracker(PageSize)
    /\ Walk = [Pages |-> <<>>, Finishes |-> 0]
    /\ Recorder = NewRecorder(Base)
    /\ Platform = <<>>
    /\ Context = PageReleaseContext(1, 1, 1, 1, 0, PageSize)
    /\ FreeBlocks = {}
    /\ Marked = {}
    /\ Marks = [Free |-> 0, Range |-> 0, From |-> 0, To |-> 0]
    /\ Scans = <<>>
    /\ NoMap
    /\ NoShared

\* the tracker with the recorder and the platform it calls
TrackerState == [Tracker |-> Tracker, Recorder |-> Recorder, Platform |-> Platform]

TrackerStep(ts, Advanced, Finishes) ==
  /\ Tracker' = ts.Tracker
  /\ Recorder' = ts.Recorder
  /\ Platform' = ts.Platform
  /\ Walk' = [Pages |-> Walk.Pages \o Advanced, Finishes |-> Walk.Finishes + Finishes]
  /\ UNCHANGED <<Context, FreeBlocks, Marked, Marks, Scans, mapVars, sharedVars>>

\* processNextPage(Released)
ProcessNextPage ==
  \E Released \in BOOLEAN :
    /\ Walk.Finishes = 0
    /\ Len(Walk.Pages) < MaxTrackerPages
    /\ TrackerStep(processNextPage(TrackerState, Released), <<Released>>, 0)

\* skipPages(N)
SkipPages ==
  \E N \in 0..MaxSkip :
    /\ Walk.Finishes = 0
    /\ Len(Walk.Pages) + N <= MaxTrackerPages
    /\ TrackerStep(skipPages(TrackerState, N), [k \in 1..N |-> FALSE], 0)

\* finish(), once at the end and once more
Finish ==
  /\ Walk.Finishes < 2
  /\ TrackerStep(finish(TrackerState), <<>>, 1)

NextTracker == ProcessNextPage \/ SkipPages \/ Finish

SpecTracker == InitTracker /\ [][NextTracker]_vars

\* ------------------------------------------------ partial windows
\* one region of eight pages with a release window of whole pages anywhere
\* in it; the free list is one block, the blocks of the window or every block
PartialPages == 8

InitPartial ==
  \E PageSize \in PageSizes, BlockSize \in 1..MaxBlockSize, Base \in Bases,
     Offset \in 0..(PartialPages - 1), Pages \in 1..PartialPages :
    /\ Offset + Pages <= PartialPages
    /\ \E Free \in {{b} : b \in AllBlocksOf(BlockSize, PartialPages * PageSize, 1)}
                  \cup {AllBlocksOf(BlockSize, PartialPages * PageSize, 1)}
                  \cup {{b \in AllBlocksOf(BlockSize, PartialPages * PageSize, 1) :
                           /\ b >= Offset * PageSize
                           /\ b + BlockSize <= (Offset + Pages) * PageSize}} :
         /\ Context = PageReleaseContext(BlockSize, PartialPages * PageSize, 1,
                                         Pages * PageSize, Offset * PageSize, PageSize)
         /\ Recorder = NewRecorder(Base)
         /\ Platform = <<>>
         /\ FreeBlocks = Free
         /\ Marked = {}
         /\ Marks = [Free |-> 0, Range |-> 0, From |-> 0, To |-> 0]
         /\ Scans = <<>>
         /\ NoMap
         /\ NoShared
         /\ NoTracker

SpecPartial == InitPartial /\ [][NextScenario]_vars

\* ------------------------------------------------ the block grid
\* one region that holds a whole period of the block grid: PageSize blocks on
\* BlockSize pages, the region ending on a page and on a block boundary
MaxGridBlockSize == 12

GridPageSizes == {4, 8, 16}

InitGrid ==
  \E PageSize \in GridPageSizes, BlockSize \in 1..MaxGridBlockSize, Base \in Bases :
    \E Free \in {AllBlocksOf(BlockSize, BlockSize * PageSize, 1)}
                \cup {AllBlocksOf(BlockSize, BlockSize * PageSize, 1) \ {b} :
                        b \in {0, BlockSize}} :
      InitPass(BlockSize, BlockSize * PageSize, 1, PageSize, Base, Free)

SpecGrid == InitGrid /\ [][NextScenario]_vars

\* ------------------------------------------- a RegionPageMap on its own
\* the largest counts the maps are built for: one of each counter width
MaxValues == {1, 2, 3, 4, 15, 16, 255, 256}

\* RegionPageMap(NumberOfRegions, CountersPerRegion, MaxValue)
InitMap ==
  \E NumberOfRegions \in 1..MaxRegions, CountersPerRegion \in 1..MaxCounters,
     MaxValue \in MaxValues :
    /\ Map = reset(NumberOfRegions, CountersPerRegion, MaxValue, TRUE, TRUE,
                   CleanStaticBuffer)
    /\ MapArgs = [NumberOfRegions |-> NumberOfRegions,
                  CountersPerRegion |-> CountersPerRegion,
                  MaxValue |-> MaxValue]
    /\ op = NoOp
    /\ Context = PageReleaseContext(1, 1, 1, 1, 0, 4)
    /\ Recorder = NewRecorder(0)
    /\ Platform = <<>>
    /\ FreeBlocks = {}
    /\ Marked = {}
    /\ Marks = [Free |-> 0, Range |-> 0, From |-> 0, To |-> 0]
    /\ Scans = <<>>
    /\ NoShared
    /\ NoTracker

MapRegions == 0..(Map.Regions - 1)

MapCounters == 0..(Map.NumCounters - 1)

\* the call is recorded in op
Called(name, Region, I, To, N, Result) ==
  /\ op' = [name |-> name, Region |-> Region, I |-> I, To |-> To, N |-> N,
            Result |-> Result, Count |-> op.Count + 1]
  /\ UNCHANGED <<MapArgs, passVars, sharedVars, trackerVars>>

\* inc(Region, I), where its DCHECKs hold
Inc ==
  /\ op.Count < MaxOps
  /\ \E Region \in MapRegions, I \in MapCounters :
       /\ get(Map, Region, I) < Map.CounterMask
       /\ Map' = inc(Map, Region, I)
       /\ Called("inc", Region, I, I, 1, FALSE)

\* incN(Region, I, N), where its DCHECKs hold
IncN ==
  /\ op.Count < MaxOps
  /\ \E Region \in MapRegions, I \in MapCounters :
       \E N \in {2, Map.CounterMask - get(Map, Region, I)} :
         /\ N > 0
         /\ N <= Map.CounterMask
         /\ get(Map, Region, I) <= Map.CounterMask - N
         /\ Map' = incN(Map, Region, I, N)
         /\ Called("incN", Region, I, I, N, FALSE)

\* incRange(Region, From, To), where its DCHECKs hold
IncRange ==
  /\ op.Count < MaxOps
  /\ \E Region \in MapRegions, From \in MapCounters, To \in 0..Map.NumCounters :
       /\ From <= To
       /\ \A I \in From..Min(To, Map.NumCounters - 1) :
            get(Map, Region, I) < Map.CounterMask
       /\ Map' = incRange(Map, Region, From, To)
       /\ Called("incRange", Region, From, To, 1, FALSE)

\* setAsAllCounted(Region, I), where its DCHECKs hold
SetAsAllCounted ==
  /\ op.Count < MaxOps
  /\ \E Region \in MapRegions, I \in MapCounters :
       /\ Map' = setAsAllCounted(Map, Region, I)
       /\ Called("setAsAllCounted", Region, I, I, 0, FALSE)

\* setAsAllCountedRange(Region, From, To), where its DCHECKs hold
SetAsAllCountedRange ==
  /\ op.Count < MaxOps
  /\ \E Region \in MapRegions, From \in MapCounters, To \in 0..Map.NumCounters :
       /\ From <= To
       /\ Map' = setAsAllCountedRange(Map, Region, From, To)
       /\ Called("setAsAllCountedRange", Region, From, To, 0, FALSE)

NextMap ==
  \/ Inc
  \/ IncN
  \/ IncRange
  \/ SetAsAllCounted
  \/ SetAsAllCountedRange

SpecMap == InitMap /\ [][NextMap]_vars

\* the range calls on a map of its own (1-bit and 8-bit counters, 3 or 5 to
\* a region), and the markers that make them on the map of a context whose
\* window is the region of eight pages
InitCallSites ==
  \/ InitMap /\ MapArgs.MaxValue \in {1, 16} /\ MapArgs.CountersPerRegion \in {3, 5}
  \/ InitPartial /\ Context.PagesCount = PartialPages

NextCallSites == IncRange \/ SetAsAllCountedRange \/ MarkFreeList \/ MarkRangeAsAllCounted

SpecCallSites == InitCallSites /\ [][NextCallSites]_vars

\* updateAsAllCountedIf(Region, I, MaxCount)
UpdateAsAllCountedIf ==
  /\ op.Count < MaxOps
  /\ \E Region \in MapRegions, I \in MapCounters, MaxCount \in {1, 2, MapArgs.MaxValue} :
       LET u == updateAsAllCountedIf(Map, Region, I, MaxCount)
       IN /\ Map' = u.PageMap
          /\ Called("updateAsAllCountedIf", Region, I, I, MaxCount, u.Result)

\* the calls the markers and the scan make on single counters
NextMapScan ==
  \/ Inc
  \/ IncN
  \/ SetAsAllCounted
  \/ UpdateAsAllCountedIf

SpecMapScan == InitMap /\ [][NextMapScan]_vars


\* ------------------------------------- release passes of one process
\* Each pass has its own PageReleaseContext and ReleaseRecorder; the page maps
\* share RegionPageMap::Mutex and RegionPageMap::StaticBuffer.  A step is one
\* call of a pass: Mutex.tryLock() and the memset that follows it are done by
\* the holder of the lock, and the calls of a map touch its own buffer only.
MaxPasses == 2

MaxContexts == 2

MaxPassMarks == 2

PassIds == 1..MaxPasses

\* the geometries <<BlockSize, RegionSize, NumberOfRegions, PageSize>> of
\* the passes
PassGeometries == {<<2, 8, 1, 4>>, <<4, 8, 2, 4>>}

NoPass ==
  [Status |-> "none", Context |-> PageReleaseContext(1, 1, 1, 1, 0, 4),
   Recorder |-> NewRecorder(0), Calls |-> <<>>, Marked |-> {}, Marks |-> 0,
   Scanned |-> FALSE, Dirty |-> FALSE, Held |-> "nullptr", Made |-> 0,
   Unlocks |-> 0, Unmaps |-> 0]

InitShared ==
  /\ Passes = [p \in PassIds |-> NoPass]
  /\ Mutex = FALSE
  /\ StaticBuffer = CleanStaticBuffer
  /\ Context = PageReleaseContext(1, 1, 1, 1, 0, 4)
  /\ Recorder = NewRecorder(0)
  /\ Platform = <<>>
  /\ FreeBlocks = {}
  /\ Marked = {}
  /\ Marks = [Free |-> 0, Range |-> 0, From |-> 0, To |-> 0]
  /\ Scans = <<>>
  /\ NoMap
  /\ NoTracker

\* a tryLock that succeeds while another map holds the mutex
tryLockAlways(Locked) == TRUE

\* Mutex.tryLock(): succeeds iff the mutex is not held, and never waits
tryLock(Locked) == ~Locked

\* the words of a map's buffer: those of the static buffer for the map that
\* points at it
WordsOf(pm) == pm.SizePerRegion * pm.Regions

LoadMap(pm) ==
  IF pm.Buffer = "StaticBuffer"
  THEN [pm EXCEPT !.Mem = StaticWords(StaticBuffer, WordsOf(pm))]
  ELSE pm

\* the map as the pass keeps it, and the static buffer after the map's calls
KeptMap(pm) == IF pm.Buffer = "StaticBuffer" THEN [pm EXCEPT !.Mem = <<>>] ELSE pm

\* a mapped buffer that lies over the static buffer
StaticBufferAfterAny(pm) ==
  IF isAllocated(pm)
  THEN [w \in (DOMAIN StaticBuffer) \cup (DOMAIN pm.Mem) |->
          IF w \in DOMAIN pm.Mem THEN pm.Mem[w] ELSE StaticBuffer[w]]
  ELSE StaticBuffer

StaticBufferAfter(pm) ==
  IF pm.Buffer = "StaticBuffer"
  THEN [w \in (DOMAIN StaticBuffer) \cup (DOMAIN pm.Mem) |->
          IF w \in DOMAIN pm.Mem THEN pm.Mem[w] ELSE StaticBuffer[w]]
  ELSE StaticBuffer

\* the context of pass p with the words of its map
ContextOf(p) == [Passes[p].Context EXCEPT !.PageMap = LoadMap(@)]

\* no pass has stopped the process with a fault
Running == \A q \in PassIds : Passes[q].Status # "fault"

\* the contexts constructed so far
RECURSIVE ContextsMade(_)
ContextsMade(n) == IF n = 0 THEN 0 ELSE Passes[n].Made + ContextsMade(n - 1)

\* PageReleaseContext Context(...); ReleaseRecorder Recorder(Base)
Construct(p) ==
  /\ Running
  /\ Passes[p].Status \in {"none", "destroyed"}
  /\ ContextsMade(MaxPasses) < MaxContexts
  /\ \E g \in PassGeometries, Base \in Bases :
       Passes' = [Passes EXCEPT ![p] =
                    [NoPass EXCEPT
                       !.Status = "live",
                       !.Context = PageReleaseContext(g[1], g[2], g[3], g[2], 0, g[4]),
                       !.Recorder = NewRecorder(Base),
                       !.Made = Passes[p].Made + 1]]
  /\ UNCHANGED <<Mutex, StaticBuffer, passVars, mapVars, trackerVars>>

\* the free lists a pass hands to markFreeBlocks: no block, the first block
\* not yet marked, or every block not yet marked
PassLists(p) ==
  LET c == Passes[p].Context
      Left == AllBlocksOf(c.BlockSize, c.RegionSize, c.NumberOfRegions) \ Passes[p].Marked
  IN {{}, Left} \cup {{b} : b \in {x \in Left : \A y \in Left : x <= y}}

\* a fault at the null Buffer stops the process; otherwise the access goes to
\* whatever lies at the address and the pass goes on
AfterNullAccess(pass, Fault) ==
  IF pass.Context.PageMap.NullAccess /\ Fault
  THEN [pass EXCEPT !.Status = "fault"]
  ELSE pass

\* Context.markFreeBlocks(FreeList, DecompactPtr, Recorder.getBase())
PassMarkFreeBlocks(p) ==
  /\ Running
  /\ Passes[p].Status = "live"
  /\ ~Passes[p].Scanned
  /\ Passes[p].Marks < MaxPassMarks
  /\ \E L \in PassLists(p), MapOk \in BOOLEAN, Fault \in BOOLEAN :
       LET pass == Passes[p]
           Was == isAllocated(pass.Context.PageMap)
           S == SortedSeq(L)
           c == markFreeBlocks(ContextOf(p),
                               [k \in 1..Len(S) |-> pass.Recorder.Base + S[k]],
                               pass.Recorder.Base, tryLock(Mutex), MapOk, StaticBuffer)
           Took == ~Was /\ c.PageMap.Buffer = "StaticBuffer"
       IN /\ L # {} \/ ~Was
          /\ Fault => (~isAllocated(c.PageMap) /\ c.PageMap.NullAccess)
          /\ Passes' = [Passes EXCEPT ![p] =
               AfterNullAccess(
                 [pass EXCEPT
                    !.Context = [c EXCEPT !.PageMap = KeptMap(@)],
                    !.Marked = @ \cup L,
                    !.Marks = @ + 1,
                    !.Held = c.PageMap.Buffer,
                    !.Dirty = IF Took
                              THEN \E w \in DOMAIN c.PageMap.Mem :
                                     StaticWords(StaticBuffer, WordsOf(c.PageMap))[w]
                                       # ZeroWord
                              ELSE @],
                 Fault)]
          /\ Mutex' = (Mutex \/ Took)
          /\ StaticBuffer' = StaticBufferAfter(c.PageMap)
  /\ UNCHANGED <<passVars, mapVars, trackerVars>>

\* releaseFreeMemoryToOS with a map that has no buffer: the counters are read
\* through the null Buffer, where every word reads Wild
releaseThroughNull(ctx, rec, platform, SkipRegion, Wild) ==
  IF \A I \in 0..(ctx.NumberOfRegions - 1) : I \in SkipRegion
  THEN releaseFreeMemoryToOS(ctx, rec, platform, SkipRegion)
  ELSE LET c == [ctx EXCEPT !.PageMap.Mem = [w \in 0..(WordsOf(ctx.PageMap) - 1) |-> Wild]]
           r == releaseFreeMemoryToOS(c, rec, platform, SkipRegion)
       IN [Context |-> [ctx EXCEPT !.PageMap.NullAccess = TRUE],
           Recorder |-> r.Recorder, Platform |-> r.Platform]

\* releaseFreeMemoryToOS(Context, Recorder, SkipRegion), once a marker was
\* called
PassRelease(p) ==
  /\ Running
  /\ Passes[p].Status = "live"
  /\ Passes[p].Marks > 0
  /\ ~Passes[p].Scanned
  /\ \E SkipRegion \in {{}, 0..(Passes[p].Context.NumberOfRegions - 1)},
        Fault \in BOOLEAN, Wild \in {ZeroWord, AllOnes} :
       LET pass == Passes[p]
           Has == isAllocated(pass.Context.PageMap)
           r == IF Has
                THEN releaseFreeMemoryToOS(ContextOf(p), pass.Recorder, pass.Calls,
                                           SkipRegion)
                ELSE releaseThroughNull(pass.Context, pass.Recorder, pass.Calls,
                                        SkipRegion, Wild)
           Null == r.Context.PageMap.NullAccess /\ ~pass.Context.PageMap.NullAccess
       IN /\ Has => (~Fault /\ Wild = ZeroWord)
          /\ Fault => (Null /\ Wild = ZeroWord)
          /\ Passes' = [Passes EXCEPT ![p] =
               IF Fault
               THEN [pass EXCEPT !.Status = "fault", !.Context.PageMap.NullAccess = TRUE]
               ELSE [pass EXCEPT
                       !.Context = [r.Context EXCEPT !.PageMap = KeptMap(@)],
                       !.Recorder = r.Recorder,
                       !.Calls = r.Platform,
                       !.Scanned = TRUE]]
          /\ StaticBuffer' = StaticBufferAfter(r.Context.PageMap)
  /\ UNCHANGED <<Mutex, passVars, mapVars, trackerVars>>

\* a destructor that leaves the mutex locked
destroyKeepLock(pm) ==
  [PageMap |-> [pm EXCEPT !.Buffer = "nullptr", !.Mem = <<>>],
   Unlock |-> FALSE, Unmap |-> isAllocated(pm) /\ pm.Buffer # "StaticBuffer"]

\* ~RegionPageMap(): the map afterwards, and whether the destructor unlocked
\* the mutex or unmapped the buffer
destroy(pm) ==
  IF ~isAllocated(pm) THEN [PageMap |-> pm, Unlock |-> FALSE, Unmap |-> FALSE]
  ELSE [PageMap |-> [pm EXCEPT !.Buffer = "nullptr", !.Mem = <<>>],
        Unlock |-> pm.Buffer = "StaticBuffer",
        Unmap |-> pm.Buffer # "StaticBuffer"]

\* the context of pass p goes out of scope
Destroy(p) ==
  /\ Running
  /\ Passes[p].Status = "live"
  /\ LET d == destroy(Passes[p].Context.PageMap)
     IN /\ Passes' = [Passes EXCEPT ![p] =
                        [NoPass EXCEPT
                           !.Status = "destroyed",
                           !.Made = Passes[p].Made,
                           !.Held = Passes[p].Held,
                           !.Context.PageMap = [EmptyPageMap EXCEPT !.Buffer = d.PageMap.Buffer],
                           !.Unlocks = IF d.Unlock THEN 1 ELSE 0,
                           !.Unmaps = IF d.Unmap THEN 1 ELSE 0]]
        /\ Mutex' = IF d.Unlock THEN FALSE ELSE Mutex
  /\ UNCHANGED <<StaticBuffer, passVars, mapVars, trackerVars>>

NextShared ==
  \E p \in PassIds :
    \/ Construct(p)
    \/ PassMarkFreeBlocks(p)
    \/ PassRelease(p)
    \/ Destroy(p)

SpecShared == InitShared /\ [][NextShared]_vars

\* ------------------------------------------------------------ properties
RegionsOf == 0..(Context.NumberOfRegions - 1)

PagesOf == 0..(Context.PagesCount - 1)

ScansMade == 1..Len(Scans)

\* the calls of releasePageRangeToOS scan k made
CallsOf(k) == Scans[k].First..Scans[k].Last

\* the offset the scan gives page J of region R: the tracker counts the pages of
\* the regions one after the other
PageFrom(R, J) == (R * Context.PagesCount + J) * Context.PageSize

\* scan k emitted page J of region R into a released range
Released(k, R, J) ==
  \E i \in CallsOf(k) :
    /\ Platform[i].From <= PageFrom(R, J)
    /\ PageFrom(R, J) + Context.PageSize <= Platform[i].To

\* the whole blocks of region R that intersect its page J
BlocksOnPage(R, J) ==
  {b \in AllBlocks :
     /\ b \div Context.RegionSize = R
     /\ (b % Context.RegionSize) < (J + 1) * Context.PageSize
     /\ (b % Context.RegionSize) + Context.BlockSize > J * Context.PageSize}

\* C1: a page that a block absent from the free lists intersects is in no range
\* the scan emits, when only markFreeBlocks marked the pass
C1_InUsePageNotReleased ==
  \A k \in ScansMade :
    Scans[k].Marks.Range = 0 =>
      \A R \in RegionsOf, J \in PagesOf :
        (\E b \in BlocksOnPage(R, J) : b \notin Scans[k].Marked) => ~Released(k, R, J)

\* a scan that released a page and kept another one, of which a block was in
\* the free list and another block was not
C1_Witness ==
  \E k \in ScansMade, R \in RegionsOf, J \in PagesOf, J2 \in PagesOf :
    /\ Scans[k].Marks.Range = 0
    /\ R \notin Scans[k].SkipRegion
    /\ \E b \in BlocksOnPage(R, J) : b \notin Scans[k].Marked
    /\ \E b \in BlocksOnPage(R, J) : b \in Scans[k].Marked
    /\ ~Released(k, R, J)
    /\ Released(k, R, J2)

\* the end of the last whole block of a region
LastBlockEnd == (Context.RegionSize \div Context.BlockSize) * Context.BlockSize

\* page J reaches into the tail after the last whole block of its region
TouchesTail(J) == (J + 1) * Context.PageSize > LastBlockEnd

\* the last whole block of region R
LastBlockOf(R) == R * Context.RegionSize + LastBlockEnd - Context.BlockSize

\* C2: with no region skipped, a page whose blocks are all in the free lists,
\* and whose region has its last block free if the page reaches into the tail,
\* is in a range the scan emits
C2_FreePageReleased ==
  \A k \in ScansMade :
    (Scans[k].Marks.Range = 0 /\ Scans[k].SkipRegion = {}) =>
      \A R \in RegionsOf, J \in PagesOf :
        (/\ BlocksOnPage(R, J) \subseteq Scans[k].Marked
         /\ TouchesTail(J) => LastBlockOf(R) \in Scans[k].Marked)
        => Released(k, R, J)

\* a scan that released a page reaching into a tail no block fits in, next to
\* an in-use page
C2_Witness ==
  \E k \in ScansMade, R \in RegionsOf, J \in PagesOf, J2 \in PagesOf :
    /\ Scans[k].Marks.Range = 0 /\ Scans[k].SkipRegion = {}
    /\ LastBlockEnd < Context.RegionSize
    /\ TouchesTail(J)
    /\ BlocksOnPage(R, J) \subseteq Scans[k].Marked
    /\ LastBlockOf(R) \in Scans[k].Marked
    /\ Released(k, R, J)
    /\ ~Released(k, R, J2)

\* C3: no page of a skipped region is in a range the scan emits, and no range
\* reaches from before the region's pages into or over them
C3_SkippedRegionNotReleased ==
  \A k \in ScansMade :
    \A R \in Scans[k].SkipRegion :
      /\ \A J \in PagesOf : ~Released(k, R, J)
      /\ \A i \in CallsOf(k) :
           \/ Platform[i].To <= PageFrom(R, 0)
           \/ Platform[i].From >= PageFrom(R + 1, 0)

\* a scan that skipped a region of which every block was marked free, with a
\* range that ends at the region's first page
C3_Witness ==
  \E k \in ScansMade :
    \E R \in Scans[k].SkipRegion :
      /\ \A J \in PagesOf :
           /\ BlocksOnPage(R, J) # {}
           /\ BlocksOnPage(R, J) \subseteq Scans[k].Marked
           /\ get(Context.PageMap, R, J) > 0
      /\ \E i \in CallsOf(k) : Platform[i].To = PageFrom(R, 0)

\* scan k ran when every whole block of every region had been given to
\* markFreeBlocks
AllFreeAt(k) == Scans[k].Marks.Range = 0 /\ Scans[k].Marked = AllBlocks

\* the first regions of the maximal runs of neighbouring regions scan k did
\* not skip
RunStarts(k) ==
  {a \in RegionsOf \ Scans[k].SkipRegion : a = 0 \/ (a - 1) \in Scans[k].SkipRegion}

\* the last region of the run of scan k that starts with region a
RunEnd(k, a) ==
  CHOOSE b \in a..(Context.NumberOfRegions - 1) :
    /\ \A R \in a..b : R \notin Scans[k].SkipRegion
    /\ b = Context.NumberOfRegions - 1 \/ (b + 1) \in Scans[k].SkipRegion

\* C4: with two regions or more and every block free, the scan makes one call
\* for each maximal run of neighbouring non-skipped regions, over exactly the
\* pages of the run: one call [0, 65536) for two regions of 32768 bytes and no
\* skip, two calls for four regions of which region 2 is skipped
C4_OneCallPerRunOfRegions ==
  \A k \in ScansMade :
    (AllFreeAt(k) /\ Context.NumberOfRegions >= 2) =>
      /\ Scans[k].Last - Scans[k].First + 1 = Cardinality(RunStarts(k))
      /\ \A a \in RunStarts(k) :
           \E i \in CallsOf(k) :
             /\ Platform[i].From = PageFrom(a, 0)
             /\ Platform[i].To = PageFrom(RunEnd(k, a) + 1, 0)
      /\ (k = 1 /\ Len(Scans) = 1 /\ Context.NumberOfRegions = 2
            /\ Scans[k].SkipRegion = {}) =>
           /\ Recorder.ReleasedRangesCount = 1
           /\ Recorder.ReleasedBytes = 65536
           /\ Platform[1].From = 0 /\ Platform[1].To = 65536
      /\ (Context.NumberOfRegions = 4 /\ Scans[k].SkipRegion = {2}) =>
           /\ Scans[k].Last - Scans[k].First + 1 = 2
           /\ Platform[Scans[k].First].From = 0
           /\ Platform[Scans[k].First].To = 65536
           /\ Platform[Scans[k].Last].From = 98304
           /\ Platform[Scans[k].Last].To = 131072

\* the first scan of four regions, all blocks free, that skipped region 2
C4_Witness ==
  /\ Len(Scans) = 1
  /\ AllFreeAt(1)
  /\ Context.NumberOfRegions = 4
  /\ Scans[1].SkipRegion = {2}
  /\ Recorder.ReleasedRangesCount = 2

\* C4 as the specification states it: one call for each non-skipped region over
\* exactly that region's pages, two calls and 65536 bytes for two regions, three
\* calls for four regions of which region 2 is skipped
C4_OneCallPerRegion ==
  \A k \in ScansMade :
    (AllFreeAt(k) /\ Context.NumberOfRegions >= 2) =>
      /\ Scans[k].Last - Scans[k].First + 1
           = Cardinality(RegionsOf \ Scans[k].SkipRegion)
      /\ \A R \in RegionsOf \ Scans[k].SkipRegion :
           \E i \in CallsOf(k) :
             /\ Platform[i].From = PageFrom(R, 0)
             /\ Platform[i].To = PageFrom(R + 1, 0)
      /\ (k = 1 /\ Len(Scans) = 1 /\ Context.NumberOfRegions = 2
            /\ Scans[k].SkipRegion = {}) =>
           /\ Recorder.ReleasedRangesCount = 2
           /\ Recorder.ReleasedBytes = 65536
      /\ (Context.NumberOfRegions = 4 /\ Scans[k].SkipRegion = {2}) =>
           Scans[k].Last - Scans[k].First + 1 = 3

\* the region of the page at offset P of the scan
RegionOfPage(P) == (P \div Context.PageSize) \div Context.PagesCount

\* C5: the ranges of one scan are strictly increasing in From, do not overlap,
\* and two ranges that meet have the pages at their meeting point in different
\* regions
C5_RangesIncreasingDisjoint ==
  \A k \in ScansMade :
    \A i \in CallsOf(k), j \in CallsOf(k) :
      i < j =>
        /\ Platform[i].From < Platform[i].To
        /\ Platform[i].From < Platform[j].From
        /\ Platform[i].To <= Platform[j].From
        /\ Platform[i].To = Platform[j].From =>
             RegionOfPage(Platform[i].To - Context.PageSize)
               # RegionOfPage(Platform[j].From)

\* a scan that made two calls for two ranges of one region, a page apart
C5_Witness ==
  \E k \in ScansMade :
    \E i \in CallsOf(k), j \in CallsOf(k) :
      /\ i < j
      /\ Platform[i].To + Context.PageSize = Platform[j].From
      /\ RegionOfPage(Platform[i].From) = RegionOfPage(Platform[j].From)

RECURSIVE SumOfSizes(_)
SumOfSizes(n) ==
  IF n = 0 THEN 0 ELSE SumOfSizes(n - 1) + (Platform[n].To - Platform[n].From)

\* the counters of the recorder agree with the calls made on it
RecorderCounts ==
  /\ Recorder.ReleasedRangesCount = Len(Platform)
  /\ Recorder.ReleasedBytes = SumOfSizes(Len(Platform))
  /\ \A i \in 1..Len(Platform) :
       /\ Platform[i].Base = Recorder.Base
       /\ Platform[i].Size = Platform[i].To - Platform[i].From

RecorderSteps ==
  /\ Recorder'.ReleasedRangesCount >= Recorder.ReleasedRangesCount
  /\ Recorder'.ReleasedBytes >= Recorder.ReleasedBytes
  /\ Recorder'.Base = Recorder.Base

\* C6: the recorder's count of ranges is the number of releasePageRangeToOS
\* calls and its count of bytes the sum of To - From over them; no step lowers
\* a counter or changes Base
C6_RecorderAccounting == []RecorderCounts /\ [][RecorderSteps]_vars

\* a recorder after three calls or more, two of them of different sizes
C6_Witness ==
  /\ Len(Platform) >= 3
  /\ Recorder.ReleasedRangesCount = Len(Platform)
  /\ \E i, j \in 1..Len(Platform) : Platform[i].Size # Platform[j].Size

\* C7: after a scan the pages it released are the pages at CounterMask, in the
\* regions it did not skip, and a second scan with the same predicate makes
\* the calls of the first one again and no other
C7_SecondScanSame ==
  /\ \A k \in ScansMade :
       \A R \in RegionsOf \ Scans[k].SkipRegion, J \in PagesOf :
         Released(k, R, J) <=> isAllCounted(Context.PageMap, R, J)
  /\ Len(Scans) = 2 =>
       /\ Scans[2].Last - Scans[2].First = Scans[1].Last - Scans[1].First
       /\ \A n \in 0..(Scans[1].Last - Scans[1].First) :
            /\ Platform[Scans[2].First + n].From = Platform[Scans[1].First + n].From
            /\ Platform[Scans[2].First + n].To = Platform[Scans[1].First + n].To

\* two scans that each released a page and kept another, of a map whose
\* CounterMask is not the count of a full page
C7_Witness ==
  /\ Len(Scans) = 2
  /\ Scans[2].Last >= Scans[2].First
  /\ Context.PageMap.CounterMask # Context.FullPagesBlockCountMax
  /\ \E R \in RegionsOf \ Scans[1].SkipRegion, J \in PagesOf : ~Released(2, R, J)

\* C8 as claimed: a counter that equals CounterMask equals CounterMask after
\* every step of the pass
C8_CounterMaskStays ==
  [][\A R \in RegionsOf, J \in PagesOf :
       (isAllocated(Context.PageMap) /\ isAllCounted(Context.PageMap, R, J))
         => isAllCounted(Context'.PageMap, R, J)]_vars

\* C9: every counter of the map reads a value from 0 to CounterMask, and the
\* MaxValue the map was built for is not above CounterMask
C9_CounterBound ==
  /\ isAllocated(Map)
  /\ MapArgs.MaxValue <= Map.CounterMask
  /\ \A R \in MapRegions, I \in MapCounters :
       0 <= get(Map, R, I) /\ get(Map, R, I) <= Map.CounterMask

\* a map after two calls, with a counter at CounterMask, a counter at MaxValue
\* below it and a counter at 0
C9_Witness ==
  /\ op.Count = 2
  /\ MapArgs.MaxValue < Map.CounterMask
  /\ \E R \in MapRegions, I \in MapCounters : get(Map, R, I) = Map.CounterMask
  /\ \E R \in MapRegions, I \in MapCounters : get(Map, R, I) = MapArgs.MaxValue
  /\ \E R \in MapRegions, I \in MapCounters : get(Map, R, I) = 0

\* the value the last call wrote into its counter, from the value before
Written(old) ==
  CASE op'.name = "inc" -> old + 1
    [] op'.name = "incN" -> old + op'.N
    [] op'.name = "setAsAllCounted" -> Map.CounterMask

\* C10: an inc, incN or setAsAllCounted on (Region, I) makes the counter read
\* the value written, and every other counter of every region read what it
\* read before
C10_FrameEffect ==
  [][(op' # op /\ op'.name \in {"inc", "incN", "setAsAllCounted"}) =>
       \A R \in MapRegions, I \in MapCounters :
         get(Map', R, I) = IF R = op'.Region /\ I = op'.I
                           THEN Written(get(Map, R, I))
                           ELSE get(Map, R, I)]_vars

\* a counter written next to a counter of the same word that is not 0
C10_Witness ==
  /\ op.Count = 2
  /\ op.name \in {"inc", "incN", "setAsAllCounted"}
  /\ get(Map, op.Region, op.I) > 0
  /\ \E I \in MapCounters :
       /\ I # op.I
       /\ IndexOf(Map, I) = IndexOf(Map, op.I)
       /\ get(Map, op.Region, I) > 0
       /\ get(Map, op.Region, I) < Map.CounterMask

\* the passes whose context is alive
LivePasses == {p \in PassIds : Passes[p].Status = "live"}

\* every counter of the map pm reads 0
AllZero(pm) ==
  \A R \in 0..(pm.Regions - 1), I \in 0..(pm.NumCounters - 1) : get(pm, R, I) = 0

\* C11: a reset that gets a buffer, the static one or a mapped one, leaves
\* every counter reading 0, whatever the last user of the static buffer left
\* in it: this holds for the reset a live context without a map would do now,
\* and for the map of a context whose only marker calls passed no block
C11_ResetZeroes ==
  \A p \in LivePasses :
    LET c == Passes[p].Context
    IN /\ ~isAllocated(c.PageMap) =>
            \A MapOk \in BOOLEAN :
              LET pm == reset(c.NumberOfRegions, c.PagesCount,
                              c.FullPagesBlockCountMax, tryLock(Mutex), MapOk, StaticBuffer)
              IN isAllocated(pm) => AllZero(pm)
       /\ (isAllocated(c.PageMap) /\ Passes[p].Marked = {}) =>
            AllZero(ContextOf(p).PageMap)

\* a map that took the static buffer when a destroyed map had left counters
\* in it that were not 0, and that has counted nothing yet
C11_Witness ==
  \E p \in LivePasses :
    /\ Passes[p].Held = "StaticBuffer"
    /\ Passes[p].Dirty
    /\ Passes[p].Marks = 1
    /\ Passes[p].Marked = {}
    /\ \E q \in PassIds : Passes[q].Status = "destroyed" /\ Passes[q].Unlocks = 1

\* the live maps that have a buffer, and those whose buffer is the static one
AllocatedPasses == {p \in LivePasses : isAllocated(Passes[p].Context.PageMap)}

StaticPasses == {p \in LivePasses : Passes[p].Context.PageMap.Buffer = "StaticBuffer"}

\* C12: at any time at most one live map has the static buffer, that map
\* holds the mutex, and every other live map that has a buffer has a mapped
\* one
C12_OneStaticHolder ==
  /\ Cardinality(StaticPasses) <= 1
  /\ Mutex <=> StaticPasses # {}
  /\ \A p \in AllocatedPasses \ StaticPasses :
       Passes[p].Context.PageMap.Buffer = "mapped"

\* two live maps with counters, one in the static buffer and one mapped
C12_Witness ==
  \E p \in StaticPasses, q \in AllocatedPasses :
    /\ Passes[q].Context.PageMap.Buffer = "mapped"
    /\ Passes[p].Marked # {}
    /\ Passes[q].Marked # {}

\* the first marker call of a live context, the one that calls reset, can be
\* taken whether the mutex is held or not
MarkerNeverWaits ==
  \A p \in LivePasses :
    (Running /\ Passes[p].Marks = 0) => ENABLED PassMarkFreeBlocks(p)

\* a step of pass p: its reset, met with a held mutex, ends with a mapped
\* buffer (or none when map() fails), and the counters of the other live maps
\* read what they read before
PassStepsApart ==
  \A p \in PassIds :
    Passes'[p] # Passes[p] =>
      /\ (/\ Mutex
          /\ Passes[p].Status = "live"
          /\ ~isAllocated(Passes[p].Context.PageMap)
          /\ Passes'[p].Marks = Passes[p].Marks + 1) =>
            /\ Passes'[p].Context.PageMap.Buffer \in {"mapped", "nullptr"}
            /\ Mutex'
      /\ \A q \in PassIds \ {p} :
           /\ Passes'[q] = Passes[q]
           /\ Passes[q].Status = "live" =>
                ContextOf(q)'.PageMap = ContextOf(q).PageMap

\* C13: a reset never waits for the holder of the static buffer, it goes on
\* with a mapped buffer of its own, and the marker and scan calls of one pass
\* leave the counters of every other pass as they were
C13_NoWaitNoInterference == []MarkerNeverWaits /\ [][PassStepsApart]_vars

\* two live maps with counters, the mapped one still being marked after the
\* holder of the static buffer was scanned and released pages
C13_Witness ==
  \E p \in StaticPasses, q \in AllocatedPasses :
    /\ Passes[q].Context.PageMap.Buffer = "mapped"
    /\ Passes[p].Scanned
    /\ Passes[p].Calls # <<>>
    /\ Passes[q].Marks = 2
    /\ ~AllZero(Passes[q].Context.PageMap)

DestroyedPasses == {p \in PassIds : Passes[p].Status = "destroyed"}

\* what the destructor of a live map would release now and, once run, what a
\* second run would release, and what the destructors that ran did release
ReleasedOnce ==
  /\ \A p \in LivePasses :
       LET pm == Passes[p].Context.PageMap
           d == destroy(pm)
           again == destroy(d.PageMap)
       IN /\ d.Unlock <=> pm.Buffer = "StaticBuffer"
          /\ d.Unmap <=> pm.Buffer = "mapped"
          /\ ~isAllocated(d.PageMap)
          /\ ~again.Unlock /\ ~again.Unmap
  /\ \A p \in DestroyedPasses :
       /\ Passes[p].Unlocks = (IF Passes[p].Held = "StaticBuffer" THEN 1 ELSE 0)
       /\ Passes[p].Unmaps = (IF Passes[p].Held = "mapped" THEN 1 ELSE 0)
       /\ ~isAllocated(Passes[p].Context.PageMap)
  /\ LivePasses = {} => ~Mutex

\* the first marker call of a context when no live map holds the static
\* buffer takes the static buffer
StaticTakenAgain ==
  \A p \in PassIds :
    (/\ StaticPasses = {}
     /\ Passes[p].Status = "live"
     /\ ~isAllocated(Passes[p].Context.PageMap)
     /\ Passes'[p].Marks = Passes[p].Marks + 1) =>
       /\ Passes'[p].Context.PageMap.Buffer = "StaticBuffer"
       /\ Mutex'

\* C14: a map that has a buffer gives it up exactly once, when it is
\* destroyed: it unlocks the mutex iff its buffer was the static one and
\* unmaps its buffer otherwise, and a map without a buffer releases nothing;
\* when every context is destroyed the mutex is free, and the next small map
\* that is reset takes the static buffer
C14_BufferReleasedOnce == []ReleasedOnce /\ [][StaticTakenAgain]_vars

\* a map that counts in the static buffer after an earlier holder of the
\* static buffer was destroyed
C14_Witness ==
  \E p \in StaticPasses, q \in DestroyedPasses :
    /\ Passes[q].Unlocks = 1
    /\ Passes[q].Unmaps = 0
    /\ Passes[p].Marked # {}

\* the passes whose reset got no buffer: the static buffer was not to be had
\* and map() returned null
FailedPasses ==
  {p \in PassIds : /\ Passes[p].Status \in {"live", "fault"}
                   /\ Passes[p].Marks > 0
                   /\ ~isAllocated(Passes[p].Context.PageMap)}

\* C15: a pass whose map got no buffer ends quietly: its marker calls and its
\* scan neither read nor write counter storage, the process is not stopped by
\* a fault, and the pass makes no releasePageRangeToOS call
C15_FailedAllocationQuiet ==
  \A p \in FailedPasses :
    /\ ~Passes[p].Context.PageMap.NullAccess
    /\ Passes[p].Status # "fault"
    /\ Passes[p].Calls = <<>>

\* the number of blocks of the grid that intersect page J of the region
GridCount(J) == Cardinality(BlocksOnPage(0, J))

\* C16: with the blocks laid out from offset 0, no page is intersected by
\* more than FullPagesBlockCountMax blocks, and every page is intersected by
\* exactly FullPagesBlockCountMax blocks iff SameBlockCountPerPage
C16_BlockCountBound ==
  /\ \A J \in PagesOf : GridCount(J) <= Context.FullPagesBlockCountMax
  /\ (\A J \in PagesOf : GridCount(J) = Context.FullPagesBlockCountMax)
       <=> Context.SameBlockCountPerPage

\* blocks that cross page boundaries unevenly, all of them marked: the marker
\* counted FullPagesBlockCountMax blocks on a page and fewer on another
C16_Witness ==
  /\ ~Context.SameBlockCountPerPage
  /\ Context.BlockSize < Context.PageSize
  /\ Marked = AllBlocks
  /\ Scans = <<>>
  /\ \A J \in PagesOf : get(Context.PageMap, 0, J) = GridCount(J)
  /\ \E J \in PagesOf : GridCount(J) = Context.FullPagesBlockCountMax
  /\ \E J \in PagesOf : GridCount(J) < Context.FullPagesBlockCountMax

\* C17: updateAsAllCountedIf(Region, I, MaxCount) returns true exactly when
\* the counter read CounterMask or MaxCount before the call; the counter reads
\* CounterMask after a call that returned true and what it read before after a
\* call that returned false, and every other counter reads what it read before
C17_UpdateAsAllCountedIf ==
  [][(op' # op /\ op'.name = "updateAsAllCountedIf") =>
       LET old == get(Map, op'.Region, op'.I)
       IN /\ op'.Result <=> (old = Map.CounterMask \/ old = op'.N)
          /\ \A R \in MapRegions, I \in MapCounters :
               get(Map', R, I) = IF R = op'.Region /\ I = op'.I /\ op'.Result
                                 THEN Map.CounterMask
                                 ELSE get(Map, R, I)]_vars

\* a call that returned true for a MaxCount below CounterMask and left the
\* counter at CounterMask, beside a call-free counter of the same word
C17_Witness ==
  /\ op.name = "updateAsAllCountedIf"
  /\ op.Count = 2
  /\ op.Result
  /\ op.N < Map.CounterMask
  /\ get(Map, op.Region, op.I) = Map.CounterMask
  /\ \E I \in MapCounters :
       /\ I # op.I
       /\ IndexOf(Map, I) = IndexOf(Map, op.I)
       /\ get(Map, op.Region, I) = 0

\* the scans made after the whole window was handed to markRangeAsAllCounted
WindowScans ==
  {k \in ScansMade : /\ Scans[k].Marked = FreeBlocks
                     /\ Scans[k].Marks.Range = 1
                     /\ Scans[k].SkipRegion = {}}

\* C18: with the window [16384, 49152) of a 65536-byte region and the whole
\* window marked by markRangeAsAllCounted, the scan makes the one call
\* releasePageRangeToOS(16384, 49152) on the recorder at Base, so that no
\* page outside the window is released
C18_WindowReleased ==
  \A k \in WindowScans :
    /\ Scans[k].Last = Scans[k].First
    /\ \A n \in CallsOf(k) :
         /\ Platform[n].Base = Recorder.Base
         /\ Platform[n].From = WindowFrom
         /\ Platform[n].To = WindowTo

\* the scans of a single region of which markFreeBlocks was given every whole
\* block
WholeRegionScans ==
  {k \in ScansMade : /\ Context.NumberOfRegions = 1
                     /\ Scans[k].Marked = AllBlocks
                     /\ Scans[k].Marks.Range = 0
                     /\ Scans[k].SkipRegion = {}}

\* C19: for one region with a full window of which every whole block is in
\* the free list, the scan makes exactly one call, for the range
\* [0, roundUp(RegionSize, PageSize))
C19_WholeRegionOneRange ==
  \A k \in WholeRegionScans :
    /\ Scans[k].Last = Scans[k].First
    /\ Platform[Scans[k].First].From = 0
    /\ Platform[Scans[k].First].To = roundUp(Context.RegionSize, Context.PageSize)

\* BlockSize 3000, PageSize 4096 and RegionSize 12000, every block free:
\* the one call is [0, 12288)
C19_Witness ==
  /\ WholeRegionScans # {}
  /\ Context.BlockSize = 3000
  /\ Context.PageSize = 4096
  /\ Context.RegionSize = 12000
  /\ Len(Platform) = 1
  /\ Platform[1].From = 0
  /\ Platform[1].To = 12288

\* the sizes and the buffer of a map, without its counters
MapShape(pm) == [pm EXCEPT !.Mem = <<>>, !.Checks = TRUE, !.NullAccess = FALSE]

\* the context has a map iff a marker was called, and the map is the one
\* reset(NumberOfRegions, PagesCount, FullPagesBlockCountMax) makes
MapWhenMarked ==
  /\ hasBlockMarked(Context) <=> Marks.Free + Marks.Range > 0
  /\ hasBlockMarked(Context) =>
       /\ Context.PageMap.Regions = Context.NumberOfRegions
       /\ Context.PageMap.NumCounters = Context.PagesCount
       /\ Context.PageMap.CounterMask >= Context.FullPagesBlockCountMax
       /\ MapShape(Context.PageMap) =
            MapShape(reset(Context.NumberOfRegions, Context.PagesCount,
                           Context.FullPagesBlockCountMax, TRUE, TRUE,
                           CleanStaticBuffer))

\* a marker call on a context that has a map keeps the map's sizes and buffer
\* and, where the DCHECKs of the call hold, lowers no counter
MarkerKeepsMap ==
  (Marks' # Marks /\ hasBlockMarked(Context)) =>
    /\ MapShape(Context'.PageMap) = MapShape(Context.PageMap)
    /\ (Context'.Checks /\ Context'.PageMap.Checks) =>
         \A R \in RegionsOf, J \in PagesOf :
           get(Context'.PageMap, R, J) >= get(Context.PageMap, R, J)

\* C20: a context has no page map until its first marker call; the first
\* call of markFreeBlocks or markRangeAsAllCounted creates it for
\* (NumberOfRegions, PagesCount, FullPagesBlockCountMax); later marker calls
\* neither create it again nor zero it, the counters go on from where they were
C20_LazyPageMap == []MapWhenMarked /\ [][MarkerKeepsMap]_vars

\* a map created by markRangeAsAllCounted and counted on afterwards by
\* markFreeBlocks: a page holds the count of two calls
C20_Witness ==
  /\ Marks.Range = 1
  /\ Marks.Free = 1
  /\ Scans = <<>>
  /\ Context.Checks /\ Context.PageMap.Checks
  /\ \E R \in RegionsOf, J \in PagesOf :
       /\ get(Context.PageMap, R, J) >= 2
       /\ get(Context.PageMap, R, J) < Context.PageMap.CounterMask

\* ------------------------------------------------------------------ C21
\* the counter widths a 64-bit word can be cut into
CounterWidths == {1, 2, 4, 8, 16, 32, 64}

\* the fields reset sets: the width is the smallest one of CounterWidths whose
\* largest value is at least MaxValue, CounterMask is that largest value, and a
\* word holds WordBits / width counters
SmallestWidth ==
  LET b == 2 ^ Map.CounterSizeBitsLog
  IN /\ b \in CounterWidths
     /\ b <= 16
     /\ MapArgs.MaxValue <= 2 ^ b - 1
     /\ \A c \in CounterWidths : c < b => MapArgs.MaxValue > 2 ^ c - 1
     /\ Map.CounterMask = 2 ^ b - 1
     /\ 2 ^ Map.PackingRatioLog = WordBits \div b
     /\ Map.BitOffsetMask = (WordBits \div b) - 1
     /\ Map.SizePerRegion = (Map.NumCounters + (WordBits \div b) - 1) \div (WordBits \div b)

\* C21 (amended): the counter width chosen by reset is the smallest power-of-two
\* number of bits that fits MaxValue; for MaxValue = 3 this gives 2-bit
\* counters (CounterMask = 3) packed 32 per 64-bit word, and 4-bit counters
\* packed 16 per word are what MaxValue = 4 .. 15 give.
C21_SmallestCounterWidth ==
  /\ SmallestWidth
  /\ MapArgs.MaxValue = 3 =>
       /\ Map.CounterSizeBitsLog = 1
       /\ Map.CounterMask = 3
       /\ Map.PackingRatioLog = 5
  /\ MapArgs.MaxValue \in 4..15 =>
       /\ Map.CounterSizeBitsLog = 2
       /\ Map.CounterMask = 15
       /\ Map.PackingRatioLog = 4

\* a map for MaxValue = 3 after inc(0, 1): counter 1 is bit 2 of word 0
C21_Witness ==
  /\ MapArgs.MaxValue = 3
  /\ op.name = "inc" /\ op.Count = 1 /\ op.Region = 0 /\ op.I = 1
  /\ Map.Mem[0][1] = 4
  /\ get(Map, 0, 1) = 1

\* C21 as stated: the smallest width that fits, and MaxValue = 3 gives 4-bit
\* counters packed 16 per word
C21_ThreeTakesFourBits ==
  /\ SmallestWidth
  /\ MapArgs.MaxValue = 3 => (Map.CounterSizeBitsLog = 2 /\ Map.PackingRatioLog = 4)

\* ------------------------------------------------------------------ C22
\* the first marker call of the pass was markRangeAsAllCounted, and no scan
\* was made since
AfterFirstRange == Marks.Range = 1 /\ Marks.Free = 0 /\ Scans = <<>>

\* the blocks of the one region that intersect page J of the window; the piece
\* after the last whole block is the last of them
GridOnPage(J) ==
  {b \in {k * Context.BlockSize : k \in 0..((Context.RegionSize - 1) \div Context.BlockSize)} :
     /\ b < (Context.ReleasePageOffset + J + 1) * Context.PageSize
     /\ b + Context.BlockSize > (Context.ReleasePageOffset + J) * Context.PageSize}

\* block b starts inside the range of the last markRangeAsAllCounted call
StartsInRange(b) == Marks.From <= b /\ b < Marks.To

\* the blocks intersecting page J that start inside the range
RangeBlocksOn(J) == {b \in GridOnPage(J) : StartsInRange(b)}

\* page J starts at or after the end of the range
PastTo(J) == (Context.ReleasePageOffset + J) * Context.PageSize >= Marks.To

\* page J has the counter the range gives it: all-counted if every block on it
\* starts inside the range, the number of its blocks that do otherwise; a page
\* past To that only the last block of the range touches may have counter 1
RangeCountOf(J) ==
  IF RangeBlocksOn(J) = GridOnPage(J)
  THEN \/ isAllCounted(Context.PageMap, 0, J)
       \/ PastTo(J) /\ get(Context.PageMap, 0, J) = Cardinality(RangeBlocksOn(J))
  ELSE get(Context.PageMap, 0, J) = Cardinality(RangeBlocksOn(J))

\* the first block of the range starts inside a page and no block of the range
\* starts after that page: markRangeAsAllCounted returns after the first page
OnlyFirstPage ==
  LET First == roundUpSlow(Marks.From, Context.BlockSize)
      Last == roundDownSlow(Marks.To - 1, Context.BlockSize)
  IN /\ First < Marks.To
     /\ First % Context.PageSize # 0
     /\ Last < roundDown(First, Context.PageSize) + Context.PageSize

\* apart from that case every page has the counter the range gives it
RangeCountsButFirstPageOnly ==
  AfterFirstRange /\ ~OnlyFirstPage => \A J \in PagesOf : RangeCountOf(J)

\* C22: after markRangeAsAllCounted(From, To, Base) on a fresh context, a page
\* whose blocks all start inside [From, To) is all-counted (or, past To, has
\* counter 1 for the last block of the range), and the counter of every other
\* page is the number of the blocks intersecting it that start inside [From, To)
C22_RangeCounts ==
  AfterFirstRange => \A J \in PagesOf : RangeCountOf(J)

\* ------------------------------------------------------------------ C23
\* no debug check of the context or of its page map has failed
ChecksHold == Context.Checks /\ Context.PageMap.Checks

\* a whole block starts inside the range given to markRangeAsAllCounted
RangeHasBlock == BlocksStartingIn(0, Marks.From, Marks.To) # {}

\* a scan of a pass marked with a range releases a page only if every block
\* intersecting it is free
RangeReleasedOnlyFree ==
  \A k \in ScansMade :
    Scans[k].Marks.Range = 1 =>
      \A J \in PagesOf : Released(k, 0, J) => BlocksOnPage(0, J) \subseteq FreeBlocks

\* no check fails when a whole block starts in the range and the range ends on
\* a page boundary or the region on a block boundary
RangeWithBlockChecks ==
  (/\ Marks.Range = 1
   /\ RangeHasBlock
   /\ Marks.To % Context.PageSize = 0 \/ Context.RegionSize % Context.BlockSize = 0)
  => ChecksHold

\* C23: when the blocks starting inside [From, To) are free and marked with
\* markRangeAsAllCounted and the free blocks starting outside with
\* markFreeBlocks, in either order, no debug check of the page map fails (with
\* To page aligned the checks of the map are the only ones that can fail) and
\* the scan releases a page only if every block intersecting it is free
C23_MixedMarkersSafe ==
  /\ (Marks.Range = 1 /\ Marks.To % Context.PageSize = 0) => ChecksHold
  /\ RangeReleasedOnlyFree

\* ------------------------------------------------------------------ C24
\* slow path: the boundaries before page J of a region
RECURSIVE slowBoundaries(_, _)
slowBoundaries(ctx, J) ==
  IF J = 0 THEN slowStart(ctx)
  ELSE slowPage(ctx, slowBoundaries(ctx, J - 1).PrevPageBoundary,
                slowBoundaries(ctx, J - 1).CurrentBoundary)

\* slow path: the BlocksPerPage given to updateAsAllCountedIf for page J
BlocksPerPageOf(ctx, J) ==
  slowPage(ctx, slowBoundaries(ctx, J).PrevPageBoundary,
           slowBoundaries(ctx, J).CurrentBoundary).BlocksPerPage

\* the blocks of the grid k * BlockSize that intersect page J of the window
PageGrid(J) ==
  {k \in 0..(((Context.ReleasePageOffset + J + 1) * Context.PageSize) \div Context.BlockSize) :
     /\ k * Context.BlockSize < (Context.ReleasePageOffset + J + 1) * Context.PageSize
     /\ (k + 1) * Context.BlockSize > (Context.ReleasePageOffset + J) * Context.PageSize}

\* C24: in the slow path the BlocksPerPage given to updateAsAllCountedIf for
\* page J is the number of blocks of the grid k * BlockSize that intersect the
\* bytes [(ReleasePageOffset + J) * PageSize, (ReleasePageOffset + J + 1) * PageSize)
C24_SlowCountExact ==
  ~Context.SameBlockCountPerPage =>
    \A J \in PagesOf : BlocksPerPageOf(Context, J) = Cardinality(PageGrid(J))

\* a slow-path scan of a window that starts inside a block, with blocks
\* smaller than a page, released a page with three blocks on it and left a
\* page with two
C24_Witness ==
  /\ Scans # <<>>
  /\ ~Context.SameBlockCountPerPage
  /\ Context.ReleasePageOffset > 0
  /\ (Context.ReleasePageOffset * Context.PageSize) % Context.BlockSize # 0
  /\ Context.BlockSize < Context.PageSize
  /\ \E J \in PagesOf : Released(1, 0, J) /\ BlocksPerPageOf(Context, J) = 3
  /\ \E J \in PagesOf : ~Released(1, 0, J) /\ BlocksPerPageOf(Context, J) = 2

\* ------------------------------------------------------------------ C25
\* the platform calls made by constructing the context from (BlockSize,
\* RegionSize, NumberOfRegions, ReleaseSize = RegionSize), marking the free
\* list with markFreeBlocks and scanning with the predicate of the one scan
ExplicitCalls ==
  LET S == SortedSeq(FreeBlocks)
  IN releaseFreeMemoryToOS(
       markFreeBlocks(PageReleaseContext(Context.BlockSize, Context.RegionSize,
                                         Context.NumberOfRegions, Context.RegionSize,
                                         0, Context.PageSize),
                      [k \in 1..Len(S) |-> Recorder.Base + S[k]],
                      Recorder.Base, TRUE, TRUE, CleanStaticBuffer),
       NewRecorder(Recorder.Base), <<>>, Scans[1].SkipRegion).Platform

\* the overload does what the explicit steps do when RegionSize and
\* NumberOfRegions are the same number
OverloadSameWhenEqual ==
  (Scans # <<>> /\ Context.RegionSize = Context.NumberOfRegions) => Platform = ExplicitCalls

\* C25: the overload releaseFreeMemoryToOS(FreeList, RegionSize,
\* NumberOfRegions, BlockSize, Recorder, DecompactPtr, SkipRegion) makes the
\* same sequence of release calls as constructing PageReleaseContext(BlockSize,
\* RegionSize, NumberOfRegions, ReleaseSize = RegionSize), calling
\* markFreeBlocks and then the scan on the context
C25_OverloadSameCalls ==
  Scans # <<>> => Platform = ExplicitCalls

\* ------------------------------------------------------------------ C26
\* the release window is a part of the region
PartialWindow ==
  Context.ReleasePageOffset > 0 \/ Context.PagesCount * Context.PageSize < Context.RegionSize

\* block b lies wholly outside the release window
OutsideWindow(b) ==
  \/ b + Context.BlockSize <= Context.ReleasePageOffset * Context.PageSize
  \/ b >= (Context.ReleasePageOffset + Context.PagesCount) * Context.PageSize

\* block b lies wholly inside the release window
InsideWindow(b) ==
  /\ b >= Context.ReleasePageOffset * Context.PageSize
  /\ b + Context.BlockSize
       <= (Context.ReleasePageOffset + Context.PagesCount) * Context.PageSize

\* no check fails when every block of the free list lies inside the window
InsideWindowChecks ==
  (PartialWindow /\ Marks.Free = 1 /\ \A b \in Marked : InsideWindow(b)) => ChecksHold

\* C26: in a single-region context with a partial release window,
\* markFreeBlocks over free blocks anywhere in the region fails no bounds check
\* of the page map, and a free list of blocks wholly outside the window leaves
\* every counter of the window at 0
C26_WindowMarkerInBounds ==
  (PartialWindow /\ Marks.Free = 1) =>
    /\ ChecksHold
    /\ (\A b \in Marked : OutsideWindow(b)) =>
         \A J \in PagesOf : get(Context.PageMap, 0, J) = 0

\* ------------------------------------------------------------------ C27
\* page index P lies in a range the tracker emitted
Covered(P) ==
  \E i \in 1..Len(Platform) :
    /\ Platform[i].From <= P * (2 ^ Tracker.PageSizeLog)
    /\ P * (2 ^ Tracker.PageSizeLog) < Platform[i].To

\* after finish() the pages covered are those processNextPage(true) advanced
\* over, and no range is open; every emitted range is a non-empty range of
\* whole pages
TrackerRanges ==
  /\ \A i \in 1..Len(Platform) :
       /\ Platform[i].From < Platform[i].To
       /\ Platform[i].From % (2 ^ Tracker.PageSizeLog) = 0
       /\ Platform[i].To % (2 ^ Tracker.PageSizeLog) = 0
  /\ Walk.Finishes > 0 =>
       /\ ~Tracker.InRange
       /\ Tracker.CurrentPage = Len(Walk.Pages)
       /\ \A P \in 0..(Len(Walk.Pages) - 1) : Covered(P) <=> Walk.Pages[P + 1]

\* a finish() after the first emits nothing
SecondFinishQuiet == Walk.Finishes > 0 => Platform' = Platform /\ Recorder' = Recorder

\* C27: for a sequence of processNextPage(b) and skipPages(n) calls ended by
\* finish(), page index p is covered by an emitted range iff the call that
\* advanced over p was processNextPage(true); every emitted range is non-empty
\* with From and To multiples of PageSize; after finish() no range is open and
\* a further finish() emits nothing
C27_TrackerCoverage == []TrackerRanges /\ [][SecondFinishQuiet]_vars

\* two finish() calls after a walk that released two runs of pages with
\* skipped pages between them, the last run open when finish() was called
C27_Witness ==
  /\ Walk.Finishes = 2
  /\ Len(Platform) = 2
  /\ Len(Walk.Pages) = MaxTrackerPages
  /\ Walk.Pages[MaxTrackerPages]
  /\ Platform[1].To < Platform[2].From
  /\ Platform[2].To - Platform[2].From > 2 ^ Tracker.PageSizeLog

\* ------------------------------------------------------------------ C28
\* the counters of a region and, where its words have room for it, the slot
\* after the last counter
MapSlots == 0..Min(Map.NumCounters, Map.SizePerRegion * (2 ^ Map.PackingRatioLog) - 1)

\* the step is a call of the operation called name
CallOf(name) == op'.Count = op.Count + 1 /\ op'.name = name

\* a range call acts on the counters From .. Min(To, NumCounters - 1) of its
\* region and leaves every other slot of every region as it was
RangeCallsExact ==
  \A R \in MapRegions, I \in MapSlots :
    /\ CallOf("incRange") =>
         get(Map', R, I) =
           IF R = op'.Region /\ op'.I <= I /\ I <= Min(op'.To, Map.NumCounters - 1)
           THEN get(Map, R, I) + 1 ELSE get(Map, R, I)
    /\ CallOf("setAsAllCountedRange") =>
         get(Map', R, I) =
           IF R = op'.Region /\ op'.I <= I /\ I <= Min(op'.To, Map.NumCounters - 1)
           THEN Map.CounterMask ELSE get(Map, R, I)

\* byte offset p of the region lies on page J
OnPage(p, J) == J * Context.PageSize <= p /\ p < (J + 1) * Context.PageSize

\* the markers touch no page after the page of the last byte: after
\* markFreeBlocks a page that no marked block intersects (and the pretend
\* blocks after a marked last block do not reach) reads 0 and the page of the
\* last byte of a marked block does not; after markRangeAsAllCounted a page
\* that no block starting in the range intersects reads 0 and the page of
\* the byte To - 1 is all-counted when every block on it starts in the range
\* (and the call did not return after the first page)
MarkersStopAtLastByte ==
  /\ (Marks.Free = 1 /\ Marks.Range = 0 /\ Scans = <<>> /\ ChecksHold) =>
       \A J \in PagesOf :
         /\ (/\ \A b \in Marked : b \notin BlocksOnPage(0, J)
             /\ LastBlockOf(0) \in Marked => ~TouchesTail(J))
            => get(Context.PageMap, 0, J) = 0
         /\ (\E b \in Marked : OnPage(b + Context.BlockSize - 1, J))
            => get(Context.PageMap, 0, J) > 0
  /\ (AfterFirstRange /\ ChecksHold) =>
       \A J \in PagesOf :
         /\ RangeBlocksOn(J) = {} => get(Context.PageMap, 0, J) = 0
         /\ (/\ OnPage(Marks.To - 1, J)
             /\ RangeBlocksOn(J) = GridOnPage(J)
             /\ ~OnlyFirstPage)
            => isAllCounted(Context.PageMap, 0, J)

\* C28: incRange(R, From, To) and setAsAllCountedRange(R, From, To) act on
\* exactly the counters From .. min(To, CountersPerRegion - 1) (To inclusive,
\* clipped) and on no other counter, and the call sites in markFreeBlocks and
\* markRangeAsAllCounted give as To the page of the last byte to touch, not
\* the page of an exclusive end
C28_InclusiveRanges == []MarkersStopAtLastByte /\ [][RangeCallsExact]_vars

\* markFreeBlocks marked a block that ends on a page boundary, and not the
\* last block: the page of its last byte reads 1, the page after it 0
C28_Witness ==
  /\ Marks.Free = 1 /\ Marks.Range = 0
  /\ Context.BlockSize > Context.PageSize
  /\ LastBlockOf(0) \notin Marked
  /\ \E b \in Marked, J \in PagesOf :
       /\ (b + Context.BlockSize) = (J + 1) * Context.PageSize
       /\ J + 1 \in PagesOf
       /\ get(Context.PageMap, 0, J) = 1
       /\ get(Context.PageMap, 0, J + 1) = 0


\* ------------------------------------------------------------------ C29
\* the offset from Base of the memory of page J of region R, the regions
\* lying at Base + R * RegionSize
MemoryFrom(R, J) == R * Context.RegionSize + J * Context.PageSize

\* C29: with several regions laid out at Base + R * RegionSize, the offset the
\* scan emits for page J of region R is R * RegionSize + J * PageSize, the
\* offset from Base of the memory counted into counter (R, J), for every
\* RegionSize: every range a scan emits starts at the memory of its first
\* page and ends at the end of the memory of its last page
C29_ScanOffsets ==
  \A k \in ScansMade : \A i \in CallsOf(k) :
    /\ \E R \in RegionsOf, J \in PagesOf :
         /\ PageFrom(R, J) = Platform[i].From
         /\ Platform[i].From = MemoryFrom(R, J)
    /\ \E R \in RegionsOf, J \in PagesOf :
         /\ PageFrom(R, J) + Context.PageSize = Platform[i].To
         /\ Platform[i].To = MemoryFrom(R, J) + Context.PageSize

\* the same with regions of whole pages
C29_WholePageRegions ==
  Context.RegionSize % Context.PageSize = 0 => C29_ScanOffsets

\* a scan emitted a range that starts in the second region
C29_SecondRegion ==
  \E k \in ScansMade : \E i \in CallsOf(k) : Platform[i].From >= PageFrom(1, 0)

=============================================================================
